---- MODULE Spec2Model ----
(***************************************************************************)
(* Model of src/src/n64.py: the N64 cartridge dumper firmware.             *)
(*                                                                         *)
(* Two processes are interleaved: the CPU running main() (and the          *)
(* functions it calls, one action per statement or per helper call), and   *)
(* the PIO state machine running read_word_pio, one action per PIO clock   *)
(* cycle.  The cartridge and its two external address latches are the      *)
(* environment: they react inside the action that moves a control line.    *)
(***************************************************************************)
EXTENDS Integers, Sequences, FiniteSets, TLC

(***************************************************************************)
(* Program constants                                                       *)
(***************************************************************************)
rom_base_address == 268435456

default_cart_size == 12

pico_pins_map == <<0, 1, 2, 3, 4, 5, 6, 7, 15, 14, 13, 12, 11, 10, 9, 8>>

GPIOs == 0 .. 15

\* address_pins[i] (i = 0..15) is the Pin on GPIO pico_pins_map[i]
address_pins(i) == pico_pins_map[i + 1]

HeaderBytes == 64

ChunkBytes == 512

MiB == 1048576

\* in_base of the state machine: Pin(pico_pins_map[0])
in_base == address_pins(0)

(***************************************************************************)
(* Bounds of the model                                                     *)
(***************************************************************************)
\* chunks of the sweep of read_cart that the model follows
MaxChunks == 2

(***************************************************************************)
(* Integer helpers: Python's >>, & and | on non-negative ints              *)
(***************************************************************************)
RECURSIVE Pow2(_)
Pow2(n) == IF n = 0 THEN 1 ELSE 2 * Pow2(n - 1)

Shr(v, n) == v \div Pow2(n)

Bit(v, n) == Shr(v, n) % 2

LowBits(v, n) == v % Pow2(n)

address_low(a) == LowBits(a, 16)

address_high(a) == Shr(a, 16)

(***************************************************************************)
(* Bus Pin Set helpers                                                     *)
(***************************************************************************)
\* set_pico_address_pins_out: every address pin init(OUT) then low()
set_pico_address_pins_out_mode(m) ==
    [g \in GPIOs |-> IF \E i \in 0 .. 15 : address_pins(i) = g THEN "OUT" ELSE m[g]]

set_pico_address_pins_out_level(l) ==
    [g \in GPIOs |-> IF \E i \in 0 .. 15 : address_pins(i) = g THEN 0 ELSE l[g]]

\* a variant that forgets the pins (a mutation of the code below)
set_pico_address_pins_in_skip(m) == m

\* set_pico_address_pins_in: every address pin init(IN)
set_pico_address_pins_in(m) ==
    [g \in GPIOs |-> IF \E i \in 0 .. 15 : address_pins(i) = g THEN "IN" ELSE m[g]]

\* a variant whose loop stops one pin early (a mutation of the code below)
RECURSIVE write_word_15_from(_, _, _)
write_word_15_from(i, w, l) ==
    IF i = 15 THEN l
    ELSE write_word_15_from(i + 1, w, [l EXCEPT ![address_pins(i)] = Bit(w, i)])

write_word_short(w, l) == write_word_15_from(0, w, l)

\* write_word: for i in range(16): address_pins[i].value((word >> i) & 1)
RECURSIVE write_word_from(_, _, _)
write_word_from(i, w, l) ==
    IF i = 16 THEN l
    ELSE write_word_from(i + 1, w, [l EXCEPT ![address_pins(i)] = Bit(w, i)])

write_word(w, l) == write_word_from(0, w, l)

\* read_word_from_address_pins: word |= address_pins[i].value() << i
RECURSIVE read_pins_from(_, _)
read_pins_from(i, l) ==
    IF i = 16 THEN 0 ELSE l[address_pins(i)] * Pow2(i) + read_pins_from(i + 1, l)

read_word_from_address_pins(l) == read_pins_from(0, l)

\* in_(pins, 16): 16 consecutive GPIOs from in_base, GPIO in_base + j -> bit j
RECURSIVE pio_in_from(_, _)
pio_in_from(j, l) ==
    IF j = 16 THEN 0 ELSE l[(in_base + j) % 32] * Pow2(j) + pio_in_from(j + 1, l)

pio_in_pins(l) == pio_in_from(0, l)

AllIn(m) == \A g \in GPIOs : m[g] = "IN"

AllOut(m) == \A g \in GPIOs : m[g] = "OUT"

(***************************************************************************)
(* The cartridge (environment).  Bus line i of the cartridge connector is  *)
(* wired to address_pins[i]: that is the line write_word drives with bit i.*)
(***************************************************************************)
BusLineOf(g) == CHOOSE i \in 0 .. 15 : address_pins(i) = g

\* the 16-bit value on the bus lines, bit i = level of bus line i
BusWord(l) == read_pins_from(0, l)

\* the levels the cartridge puts on the GPIOs when it drives word w
CartDriven(w) == [g \in GPIOs |-> Bit(w, BusLineOf(g))]

RomImages == {"A", "B"}

\* capacity of each ROM image; past it the image repeats (mirroring)
RomSizeMiB(r) == IF r = "A" THEN 64 ELSE 8

\* the word at word index w of the image
Content(r, w) ==
    IF r = "A"
    THEN CASE w = 0 -> 32823
           [] w = 1 -> 4672
           [] w = 8 -> 54733
           [] w = 9 -> 63233
           [] OTHER -> (w * 7 + 3 + (w \div 65536)) % 65536
    ELSE (w * 257 + 256 + (w \div 65536)) % 65536

\* the word the cartridge presents for bus address a
RomWord(r, a) == Content(r, ((a - rom_base_address) % (RomSizeMiB(r) * MiB)) \div 2)

(***************************************************************************)
(* read_word_pio: the PIO program, one record per instruction.             *)
(* side = -1: no side-set; delay: the [n] suffix.                          *)
(***************************************************************************)
I(o, s, d) == [op |-> o, side |-> s, delay |-> d]

\* a variant that pushes before it samples (a mutation of the code below)
read_word_pio_push_first ==
    << I("pull", -1, 0), I("mov", -1, 0), I("nop", 0, 0),
       I("nop", -1, 4), I("nop", -1, 4), I("nop", -1, 4), I("nop", -1, 4),
       I("nop", -1, 4),
       I("push", -1, 0), I("in", -1, 0), I("nop", 1, 0) >>

\* a variant with one delay shortened (a mutation of the code below)
read_word_pio_short ==
    << I("pull", -1, 0), I("mov", -1, 0), I("nop", 0, 0),
       I("nop", -1, 4), I("nop", -1, 4), I("nop", -1, 4), I("nop", -1, 4),
       I("nop", -1, 3),
       I("in", -1, 0), I("push", -1, 0), I("nop", 1, 0) >>

read_word_pio ==
    << I("pull", -1, 0), I("mov", -1, 0), I("nop", 0, 0),
       I("nop", -1, 4), I("nop", -1, 4), I("nop", -1, 4), I("nop", -1, 4),
       I("nop", -1, 4),
       I("in", -1, 0), I("push", -1, 0), I("nop", 1, 0) >>

FifoDepth == 4

(***************************************************************************)
(* State                                                                   *)
(***************************************************************************)
VARIABLES
    \* CPU: position and the variables of main and the functions it calls
    pc, saRet, rwRet, address, word, buffer, i, checksum, db_size, cart_size,
    total_bytes, end_address, rom_address, chunk_buffer, bufferIndex,
    \* pins: mode and level of GPIO 0..15, and the control lines
    pinMode, pinLevel, write_pin, sioRd, rd, ale_low_pin, ale_high_pin,
    reset_pin, led_pin,
    \* PIO state machine 0
    sm_read, smActive, pioPc, pioDelay, osr, x, isr, txFifo, rxFifo,
    \* cartridge: the two address latches, the address counter, the image
    latchHigh, latchLow, cartAddr, rom,
    \* transport: chunks written and not yet drained, chunks drained
    pendingWrite, transport,
    \* observations: addresses passed to set_address, words returned by
    \* read_word since the last set_address, last writer of GPIO 19, cycles
    \* read-enable has been low, and what the last in_() saw
    setAddrLog, wordsRead, rdLastWriter, rdLowCycles, sampleLow, sampleRd, swWord,
    \* the words in_() has sampled since the last set_address
    sampleLog,
    \* n64.txt on the device's file system: whether it exists, and its lines
    n64_txt

cpuVars == <<pc, saRet, rwRet, address, word, buffer, i, checksum, db_size,
             cart_size, total_bytes, end_address, rom_address, chunk_buffer,
             bufferIndex>>

ctlVars == <<write_pin, ale_low_pin, ale_high_pin, reset_pin, led_pin>>

pioVars == <<sm_read, smActive, pioPc, pioDelay, osr, x, isr, txFifo, rxFifo>>

sampleVars == <<rdLowCycles, sampleLow, sampleRd, swWord>>

xportVars == <<pendingWrite, transport>>

vars == <<cpuVars, pinMode, pinLevel, ctlVars, sioRd, rd, pioVars, latchHigh,
          latchLow, cartAddr, rom, xportVars, setAddrLog, wordsRead,
          rdLastWriter, sampleVars, sampleLog, n64_txt>>

\* what the bus lines carry once modes and read-enable have settled: the
\* cartridge drives them while read-enable is low and no GPIO drives them
Settle(m, r, l, a) == IF r = 0 /\ AllIn(m) THEN CartDriven(RomWord(rom, a)) ELSE l

\* addresses the set_address harness passes
AddrSamples == {0, 1, 65535, 65536, 131071, 268435456, 268435968, 305419896,
                1073741824, 1437217740, 2147418112, 2147483647}

InitLevels == {[g \in GPIOs |-> 0], CartDriven(42435)}

Zeros(n) == [k \in 1 .. n |-> 0]

InitCommon ==
    /\ saRet = "" /\ rwRet = "" /\ address = 0 /\ word = 0
    /\ buffer = <<>> /\ i = 0 /\ db_size = 0
    /\ cart_size = default_cart_size
    /\ total_bytes = 0 /\ end_address = 0 /\ rom_address = 0
    /\ chunk_buffer = <<>> /\ bufferIndex = 0
    /\ pinLevel \in InitLevels
    /\ write_pin = 0 /\ reset_pin = 0 /\ led_pin = 0
    /\ ale_low_pin \in {0, 1} /\ ale_high_pin \in {0, 1}
    /\ rd \in {0, 1} /\ sioRd = rd
    /\ sm_read = "None" /\ smActive = FALSE /\ pioPc = 1 /\ pioDelay = 0
    /\ osr = 0 /\ x = 0 /\ isr = 0 /\ txFifo = <<>> /\ rxFifo = <<>>
    /\ latchHigh = 0 /\ latchLow = 0 /\ cartAddr = 0
    /\ rom \in RomImages
    /\ pendingWrite = <<>> /\ transport = <<>>
    /\ setAddrLog = <<>> /\ wordsRead = <<>> /\ rdLastWriter = "init"
    /\ rdLowCycles = 0 /\ sampleLow = -1 /\ sampleRd = -1 /\ swWord = -1
    /\ sampleLog = <<>>

(***************************************************************************)
(* Text: a string is a sequence of one-character strings                   *)
(***************************************************************************)
HexDigits == <<"0", "1", "2", "3", "4", "5", "6", "7", "8", "9",
               "A", "B", "C", "D", "E", "F">>

\* f'{b:02X}' for a byte b
Format02X(b) == <<HexDigits[(b \div 16) + 1], HexDigits[(b % 16) + 1]>>

\* a variant that takes bytes 0x0C..0x0F (a mutation of the code below)
checksum_str_off(buf) ==
    Format02X(buf[13]) \o Format02X(buf[14]) \o Format02X(buf[15]) \o Format02X(buf[16])

\* lines 189-190: ''.join(f'{b:02X}' for b in buffer[0x10:0x14]); buf is
\* 1-indexed, so buffer[k] is buf[k + 1]
RECURSIVE join_hex(_, _, _)
join_hex(buf, from, to) ==
    IF from >= to \/ from >= Len(buf) THEN <<>>
    ELSE Format02X(buf[from + 1]) \o join_hex(buf, from + 1, to)

checksum_str(buf) == join_hex(buf, 16, 20)

\* a variant that stores the low byte first (a mutation of the code below)
store_word_swapped(buf, k, w) ==
    [buf EXCEPT ![k + 1] = LowBits(w, 8), ![k + 2] = Shr(w, 8)]

\* lines 183-186 and 267-268: buffer[k] = word >> 8; buffer[k + 1] = word & 0xFF
store_word(buf, k, w) ==
    [buf EXCEPT ![k + 1] = Shr(w, 8), ![k + 2] = LowBits(w, 8)]

Whitespace == {" ", "\t", "\n", "\r"}

RECURSIVE lstrip(_)
lstrip(s) == IF s # <<>> /\ Head(s) \in Whitespace THEN lstrip(Tail(s)) ELSE s

RECURSIVE rstrip(_)
rstrip(s) ==
    IF s # <<>> /\ s[Len(s)] \in Whitespace THEN rstrip(SubSeq(s, 1, Len(s) - 1)) ELSE s

\* str.strip()
strip(s) == rstrip(lstrip(s))

\* str.split(','): the fields between commas; '' gives ['']
RECURSIVE split_from(_, _, _)
split_from(s, k, cur) ==
    IF k > Len(s) THEN <<cur>>
    ELSE IF s[k] = "," THEN <<cur>> \o split_from(s, k + 1, <<>>)
    ELSE split_from(s, k + 1, Append(cur, s[k]))

split_comma(s) == split_from(s, 1, <<>>)

Digits == <<"0", "1", "2", "3", "4", "5", "6", "7", "8", "9">>

IsDigit(c) == \E d \in 1 .. 10 : Digits[d] = c

DigitVal(c) == (CHOOSE d \in 1 .. 10 : Digits[d] = c) - 1

RECURSIVE digits_value(_, _)
digits_value(s, acc) ==
    IF s = <<>> THEN acc ELSE digits_value(Tail(s), acc * 10 + DigitVal(Head(s)))

\* int(s): surrounding whitespace, an optional sign, then decimal digits;
\* anything else raises ValueError (ok = FALSE)
int_parse(s) ==
    LET t == strip(s)
        signed == t # <<>> /\ Head(t) \in {"+", "-"}
        body == IF signed THEN Tail(t) ELSE t
        good == body # <<>> /\ \A k \in 1 .. Len(body) : IsDigit(body[k])
        mag == IF good THEN digits_value(body, 0) ELSE 0
    IN  [ok |-> good, val |-> IF signed /\ Head(t) = "-" THEN 0 - mag ELSE mag]

\* lines 209-236: the record loop over an open file f (a sequence of lines,
\* each with its newline), the next readline() returning f[pos]
RECURSIVE db_scan(_, _, _)
db_scan(f, pos, cs) ==
    IF pos > Len(f) THEN 0
    ELSE IF pos + 1 > Len(f) THEN 0
    ELSE LET parts == split_comma(strip(f[pos + 1]))
         IN  IF Len(parts) >= 2 /\ parts[1] = cs /\ int_parse(parts[2]).ok
             THEN int_parse(parts[2]).val
             ELSE db_scan(f, pos + 3, cs)

\* a variant that falls back to 64 (a mutation of the code below)
resolve_size_64(db, cur) == IF db > 0 THEN db ELSE 64

\* a variant that falls back to the first candidate, 4 (a mutation of the code below)
resolve_size_first(db, cur) == IF db > 0 THEN db ELSE 4

\* lines 302-306: a database size above 0 replaces the global cart_size
resolve_size(db, cur) == IF db > 0 THEN db ELSE cur

\* get_cart_size_from_db, lines 205-244; open() raises OSError for a missing
\* n64.txt (ENOENT)
get_cart_size_from_db(f, cs) == IF ~f.exists THEN 0 ELSE db_scan(f.lines, 1, cs)

(***************************************************************************)
(* Contents of n64.txt that the lookup is run against                      *)
(***************************************************************************)
\* one record, for the checksum of image A
DbZelda ==
    << <<"Z", "E", "L", "D", "A", "\n">>,
       <<"A", "B", "C", "D", "E", "F", "0", "1", ",", "3", "2", ",", "5", "\n">>,
       <<"\n">> >>

\* a record with a bad size, then the same checksum with a good one
DbMalformedFirst ==
    << <<"X", "\n">>,
       <<"9", "0", "0", "8", "5", "0", "0", "9", ",", "x", "8", ",", "1", "\n">>,
       <<"\n">>,
       <<"Y", "\n">>,
       <<"9", "0", "0", "8", "5", "0", "0", "9", ",", "8", ",", "1", "\n">>,
       <<"\n">> >>

\* a record whose size is 0
DbZeroSize ==
    << <<"Z", "\n">>,
       <<"A", "B", "C", "D", "E", "F", "0", "1", ",", "0", ",", "5", "\n">>,
       <<"\n">> >>

\* records for other cartridges only
DbOther ==
    << <<"M", "\n">>,
       <<"0", "0", "0", "0", "0", "0", "0", "0", ",", "4", ",", "1", "\n">>,
       <<"\n">>,
       <<"N", "\n">>,
       <<"a", "b", "c", "d", "e", "f", "0", "1", ",", "1", "6", ",", "1", "\n">> >>

\* n64.txt with the given lines, and no n64.txt at all
File(l) == [exists |-> TRUE, lines |-> l]

ENOENT == [exists |-> FALSE, lines |-> <<>>]

\* the files the whole program is run against
DbFiles == {ENOENT, File(DbMalformedFirst \o DbZelda)}

\* a record with a single field, then a good record for image A
DbTooFewFields ==
    << <<"P", "\n">>,
       <<"A", "B", "C", "D", "E", "F", "0", "1", "\n">>,
       <<"\n">>,
       <<"Q", "\n">>,
       <<"A", "B", "C", "D", "E", "F", "0", "1", ",", "3", "2", ",", "5", "\n">>,
       <<"\n">> >>

\* the first record lacks its blank line; the second is a good record for
\* image A
DbNoSeparator ==
    << <<"P", "\n">>,
       <<"0", "0", "0", "0", "0", "0", "0", "0", ",", "4", ",", "1", "\n">>,
       <<"Q", "\n">>,
       <<"A", "B", "C", "D", "E", "F", "0", "1", ",", "3", "2", ",", "5", "\n">>,
       <<"\n">> >>

\* the file ends after a name line
DbNameOnly ==
    << <<"M", "\n">>,
       <<"0", "0", "0", "0", "0", "0", "0", "0", ",", "4", ",", "1", "\n">>,
       <<"\n">>,
       <<"N", "\n">> >>

\* two good records for image B; the first is the one to return
DbTwoMatches ==
    << <<"X", "\n">>,
       <<"9", "0", "0", "8", "5", "0", "0", "9", ",", "8", ",", "1", "\n">>,
       <<"\n">>,
       <<"Y", "\n">>,
       <<"9", "0", "0", "8", "5", "0", "0", "9", ",", "1", "6", ",", "1", "\n">>,
       <<"\n">> >>

\* the files the lookup alone is run against
DbSamples ==
    DbFiles \cup {File(DbZelda), File(<<>>), File(DbZeroSize), File(DbOther),
                  File(DbTooFewFields),
                  File(DbNoSeparator), File(DbNameOnly), File(DbTwoMatches)}

\* the checksums looked up
ChecksumSamples ==
    { <<"A", "B", "C", "D", "E", "F", "0", "1">>,
      <<"9", "0", "0", "8", "5", "0", "0", "9">>,
      <<"a", "b", "c", "d", "e", "f", "0", "1">>,
      <<"0", "0", "0", "0", "0", "0", "0", "0">> }

\* the module has been loaded: lines 12-23 made every pin an output; n64.txt
\* is whatever was put on the device, or absent
Init ==
    /\ InitCommon
    /\ n64_txt \in DbFiles
    /\ checksum = <<>>
    /\ pc = "main"
    /\ pinMode = [g \in GPIOs |-> "OUT"]

(***************************************************************************)
(* The lookup as section 6 of the specification describes it: the size of  *)
(* the first well-formed record for the checksum, a record being a name    *)
(* line followed by an info line.  Used only to state the claim about it.  *)
(***************************************************************************)
well_formed_for(line, cs) ==
    LET parts == split_comma(strip(line))
    IN  Len(parts) >= 2 /\ parts[1] = cs /\ int_parse(parts[2]).ok

RECURSIVE first_record_from(_, _, _)
first_record_from(f, k, cs) ==
    IF k > Len(f) THEN 0
    ELSE IF well_formed_for(f[k], cs) /\ strip(f[k - 1]) # <<>>
         THEN int_parse(split_comma(strip(f[k]))[2]).val
         ELSE first_record_from(f, k + 1, cs)

first_record_size(f, cs) == IF ~f.exists THEN 0 ELSE first_record_from(f.lines, 2, cs)

(***************************************************************************)
(* Size Detection as section 4.4 of the specification describes it; the    *)
(* program has no such function.  Used only to state the claim about it.   *)
(***************************************************************************)
SizeCandidates == <<4, 8, 12, 16, 32, 64>>

\* the 16 bytes (8 words) the cartridge presents from bus address a
Sample16(r, a) == [k \in 1 .. 8 |-> RomWord(r, a + 2 * (k - 1))]

RECURSIVE detect_from(_, _)
detect_from(r, k) ==
    IF k > Len(SizeCandidates) THEN SizeCandidates[Len(SizeCandidates)]
    ELSE IF Sample16(r, rom_base_address + SizeCandidates[k] * MiB)
            = Sample16(r, rom_base_address)
         THEN SizeCandidates[k]
         ELSE detect_from(r, k + 1)

detect_size(r) == detect_from(r, 1)

\* the addresses Size Detection sets, in order, up to its first match
RECURSIVE probe_from(_, _)
probe_from(r, k) ==
    IF k > Len(SizeCandidates) THEN <<>>
    ELSE IF Sample16(r, rom_base_address + SizeCandidates[k] * MiB)
            = Sample16(r, rom_base_address)
         THEN <<rom_base_address + SizeCandidates[k] * MiB>>
         ELSE <<rom_base_address + SizeCandidates[k] * MiB>> \o probe_from(r, k + 1)

probe_addresses(r) == probe_from(r, 1)

(***************************************************************************)
(* set_address(address), lines 121-143                                     *)
(***************************************************************************)
\* line 123: set_pico_address_pins_out()
sa_pins_out ==
    /\ pc = "sa_out"
    /\ pinMode' = set_pico_address_pins_out_mode(pinMode)
    /\ pinLevel' = set_pico_address_pins_out_level(pinLevel)
    /\ pc' = "sa_wr"
    /\ UNCHANGED <<saRet, rwRet, address, word, buffer, i, checksum, db_size,
                   cart_size, total_bytes, end_address, rom_address,
                   chunk_buffer, bufferIndex>>
    /\ UNCHANGED <<ctlVars, sioRd, rd, pioVars, latchHigh, latchLow, cartAddr,
                   rom, xportVars, setAddrLog, wordsRead, rdLastWriter,
                   sampleVars>>
    /\ UNCHANGED <<sampleLog, n64_txt>>

\* line 130: write_pin.high()
sa_write_high ==
    /\ pc = "sa_wr"
    /\ write_pin' = 1
    /\ pc' = "sa_rd"
    /\ UNCHANGED <<saRet, rwRet, address, word, buffer, i, checksum, db_size,
                   cart_size, total_bytes, end_address, rom_address,
                   chunk_buffer, bufferIndex>>
    /\ UNCHANGED <<pinMode, pinLevel, ale_low_pin, ale_high_pin, reset_pin,
                   led_pin, sioRd, rd, pioVars, latchHigh, latchLow, cartAddr,
                   rom, xportVars, setAddrLog, wordsRead, rdLastWriter,
                   sampleVars>>
    /\ UNCHANGED <<sampleLog, n64_txt>>

\* line 131: read_pin.high().  The write goes to the SIO register of GPIO 19;
\* it reaches the pad only while no state machine has taken the pin over.
sa_read_high ==
    /\ pc = "sa_rd"
    /\ sioRd' = 1
    /\ rdLastWriter' = "cpu"
    /\ rd' = IF sm_read = "None" THEN 1 ELSE rd
    /\ cartAddr' = IF rd = 0 /\ rd' = 1 THEN cartAddr + 2 ELSE cartAddr
    /\ pc' = "sa_al"
    /\ UNCHANGED <<saRet, rwRet, address, word, buffer, i, checksum, db_size,
                   cart_size, total_bytes, end_address, rom_address,
                   chunk_buffer, bufferIndex>>
    /\ UNCHANGED <<pinMode, pinLevel, ctlVars, pioVars, latchHigh, latchLow,
                   rom, xportVars, setAddrLog, wordsRead, sampleVars>>
    /\ UNCHANGED <<sampleLog, n64_txt>>

\* line 132: ale_low_pin.high()
sa_ale_low_high ==
    /\ pc = "sa_al"
    /\ ale_low_pin' = 1
    /\ pc' = "sa_ah"
    /\ UNCHANGED <<saRet, rwRet, address, word, buffer, i, checksum, db_size,
                   cart_size, total_bytes, end_address, rom_address,
                   chunk_buffer, bufferIndex>>
    /\ UNCHANGED <<pinMode, pinLevel, write_pin, ale_high_pin, reset_pin,
                   led_pin, sioRd, rd, pioVars, latchHigh, latchLow, cartAddr,
                   rom, xportVars, setAddrLog, wordsRead, rdLastWriter,
                   sampleVars>>
    /\ UNCHANGED <<sampleLog, n64_txt>>

\* line 133: ale_high_pin.high()
sa_ale_high_high ==
    /\ pc = "sa_ah"
    /\ ale_high_pin' = 1
    /\ pc' = "sa_whi"
    /\ UNCHANGED <<saRet, rwRet, address, word, buffer, i, checksum, db_size,
                   cart_size, total_bytes, end_address, rom_address,
                   chunk_buffer, bufferIndex>>
    /\ UNCHANGED <<pinMode, pinLevel, write_pin, ale_low_pin, reset_pin,
                   led_pin, sioRd, rd, pioVars, latchHigh, latchLow, cartAddr,
                   rom, xportVars, setAddrLog, wordsRead, rdLastWriter,
                   sampleVars>>
    /\ UNCHANGED <<sampleLog, n64_txt>>

\* line 135: write_word(address_high)
sa_write_word_high ==
    /\ pc = "sa_whi"
    /\ pinLevel' = write_word(address_high(address), pinLevel)
    /\ pc' = "sa_ahl"
    /\ UNCHANGED <<saRet, rwRet, address, word, buffer, i, checksum, db_size,
                   cart_size, total_bytes, end_address, rom_address,
                   chunk_buffer, bufferIndex>>
    /\ UNCHANGED <<pinMode, ctlVars, sioRd, rd, pioVars, latchHigh, latchLow,
                   cartAddr, rom, xportVars, setAddrLog, wordsRead,
                   rdLastWriter, sampleVars>>
    /\ UNCHANGED <<sampleLog, n64_txt>>

\* a variant that leaves the high latch line alone (a mutation of the code below)
sa_ale_high_low_skip ==
    /\ pc = "sa_ahl"
    /\ pc' = "sa_wlo"
    /\ UNCHANGED <<saRet, rwRet, address, word, buffer, i, checksum, db_size,
                   cart_size, total_bytes, end_address, rom_address,
                   chunk_buffer, bufferIndex>>
    /\ UNCHANGED <<pinMode, pinLevel, ctlVars, sioRd, rd, pioVars, latchHigh,
                   latchLow, cartAddr, rom, xportVars, setAddrLog, wordsRead,
                   rdLastWriter, sampleVars>>
    /\ UNCHANGED <<sampleLog, n64_txt>>

\* line 137: ale_high_pin.low(); the falling edge makes the high-order latch
\* capture the bus
sa_ale_high_low ==
    /\ pc = "sa_ahl"
    /\ ale_high_pin' = 0
    /\ latchHigh' = IF ale_high_pin = 1 THEN BusWord(pinLevel) ELSE latchHigh
    /\ pc' = "sa_wlo"
    /\ UNCHANGED <<saRet, rwRet, address, word, buffer, i, checksum, db_size,
                   cart_size, total_bytes, end_address, rom_address,
                   chunk_buffer, bufferIndex>>
    /\ UNCHANGED <<pinMode, pinLevel, write_pin, ale_low_pin, reset_pin,
                   led_pin, sioRd, rd, pioVars, latchLow, cartAddr, rom,
                   xportVars, setAddrLog, wordsRead, rdLastWriter, sampleVars>>
    /\ UNCHANGED <<sampleLog, n64_txt>>

\* line 139: write_word(address_low)
sa_write_word_low ==
    /\ pc = "sa_wlo"
    /\ pinLevel' = write_word(address_low(address), pinLevel)
    /\ pc' = "sa_all"
    /\ UNCHANGED <<saRet, rwRet, address, word, buffer, i, checksum, db_size,
                   cart_size, total_bytes, end_address, rom_address,
                   chunk_buffer, bufferIndex>>
    /\ UNCHANGED <<pinMode, ctlVars, sioRd, rd, pioVars, latchHigh, latchLow,
                   cartAddr, rom, xportVars, setAddrLog, wordsRead,
                   rdLastWriter, sampleVars>>
    /\ UNCHANGED <<sampleLog, n64_txt>>

\* line 141: ale_low_pin.low(); the falling edge makes the low-order latch
\* capture the bus and loads the cartridge's address counter
sa_ale_low_low ==
    /\ pc = "sa_all"
    /\ ale_low_pin' = 0
    /\ latchLow' = IF ale_low_pin = 1 THEN BusWord(pinLevel) ELSE latchLow
    /\ cartAddr' = IF ale_low_pin = 1 THEN latchHigh * 65536 + latchLow'
                   ELSE cartAddr
    /\ pc' = "sa_in"
    /\ UNCHANGED <<saRet, rwRet, address, word, buffer, i, checksum, db_size,
                   cart_size, total_bytes, end_address, rom_address,
                   chunk_buffer, bufferIndex>>
    /\ UNCHANGED <<pinMode, pinLevel, write_pin, ale_high_pin, reset_pin,
                   led_pin, sioRd, rd, pioVars, latchHigh, rom, xportVars,
                   setAddrLog, wordsRead, rdLastWriter, sampleVars>>
    /\ UNCHANGED <<sampleLog, n64_txt>>

\* line 143: set_pico_address_pins_in(), then return to the caller
sa_pins_in ==
    /\ pc = "sa_in"
    /\ pinMode' = set_pico_address_pins_in(pinMode)
    /\ pinLevel' = Settle(pinMode', rd, pinLevel, cartAddr)
    /\ pc' = saRet
    /\ UNCHANGED <<saRet, rwRet, address, word, buffer, i, checksum, db_size,
                   cart_size, total_bytes, end_address, rom_address,
                   chunk_buffer, bufferIndex>>
    /\ UNCHANGED <<ctlVars, sioRd, rd, pioVars, latchHigh, latchLow, cartAddr,
                   rom, xportVars, setAddrLog, wordsRead, rdLastWriter,
                   sampleVars>>
    /\ UNCHANGED <<sampleLog, n64_txt>>

set_address ==
    \/ sa_pins_out \/ sa_write_high \/ sa_read_high \/ sa_ale_low_high
    \/ sa_ale_high_high \/ sa_write_word_high \/ sa_ale_high_low
    \/ sa_write_word_low \/ sa_ale_low_low \/ sa_pins_in

(***************************************************************************)
(* A harness for set_address alone: any address, from any pin state,       *)
(* again and again.                                                        *)
(***************************************************************************)
InitSetAddress ==
    /\ InitCommon
    /\ n64_txt = ENOENT
    /\ checksum = <<>>
    /\ pc = "h_call"
    /\ pinMode \in {[g \in GPIOs |-> "OUT"], [g \in GPIOs |-> "IN"]}

h_call ==
    /\ pc = "h_call"
    /\ \E a \in AddrSamples : address' = a
    /\ saRet' = "h_call"
    /\ pc' = "sa_out"
    /\ UNCHANGED <<rwRet, word, buffer, i, checksum, db_size, cart_size,
                   total_bytes, end_address, rom_address, chunk_buffer,
                   bufferIndex>>
    /\ UNCHANGED <<pinMode, pinLevel, ctlVars, sioRd, rd, pioVars, latchHigh,
                   latchLow, cartAddr, rom, xportVars, setAddrLog, wordsRead,
                   rdLastWriter, sampleVars>>
    /\ UNCHANGED <<sampleLog, n64_txt>>

NextSetAddress ==
    \/ h_call
    \/ sa_pins_out \/ sa_write_high \/ sa_read_high \/ sa_ale_low_high
    \/ sa_ale_high_high \/ sa_write_word_high \/ sa_ale_high_low
    \/ sa_write_word_low \/ sa_ale_low_low \/ sa_pins_in

SpecSetAddress == InitSetAddress /\ [][NextSetAddress]_vars

(***************************************************************************)
(* initialize_read_pio(), lines 60-82                                      *)
(***************************************************************************)
\* line 283: time.sleep(10)
main_start ==
    /\ pc = "main"
    /\ pc' = "irp_new"
    /\ UNCHANGED <<saRet, rwRet, address, word, buffer, i, checksum, db_size,
                   cart_size, total_bytes, end_address, rom_address,
                   chunk_buffer, bufferIndex, pinMode, pinLevel, write_pin,
                   sioRd, rd, ale_low_pin, ale_high_pin, reset_pin, led_pin,
                   sm_read, smActive, pioPc, pioDelay, osr, x, isr, txFifo,
                   rxFifo, latchHigh, latchLow, cartAddr, rom, pendingWrite,
                   transport, setAddrLog, wordsRead, rdLastWriter, rdLowCycles,
                   sampleLow, sampleRd, swWord>>
    /\ UNCHANGED <<sampleLog, n64_txt>>

\* lines 63-78: sm_read is None, so nothing is deactivated; StateMachine(0, ...)
\* hands GPIO 19 to the PIO, driven high (sideset_init = OUT_HIGH)
irp_construct ==
    /\ pc = "irp_new"
    /\ sm_read' = "SM0"
    /\ smActive' = FALSE
    /\ pioPc' = 1
    /\ pioDelay' = 0
    /\ osr' = 0
    /\ x' = 0
    /\ isr' = 0
    /\ txFifo' = <<>>
    /\ rxFifo' = <<>>
    /\ rd' = 1
    /\ rdLastWriter' = "pio"
    /\ rdLowCycles' = 0
    /\ cartAddr' = IF rd = 0 THEN cartAddr + 2 ELSE cartAddr
    /\ pc' = "irp_in"
    /\ UNCHANGED <<saRet, rwRet, address, word, buffer, i, checksum, db_size,
                   cart_size, total_bytes, end_address, rom_address,
                   chunk_buffer, bufferIndex, pinMode, pinLevel, write_pin,
                   sioRd, ale_low_pin, ale_high_pin, reset_pin, led_pin,
                   latchHigh, latchLow, rom, pendingWrite, transport,
                   setAddrLog, wordsRead, sampleLow, sampleRd, swWord>>
    /\ UNCHANGED <<sampleLog, n64_txt>>

\* line 81: set_pico_address_pins_in()
irp_pins_in ==
    /\ pc = "irp_in"
    /\ pinMode' = set_pico_address_pins_in(pinMode)
    /\ pinLevel' = Settle(pinMode', rd, pinLevel, cartAddr)
    /\ pc' = "irp_act"
    /\ UNCHANGED <<saRet, rwRet, address, word, buffer, i, checksum, db_size,
                   cart_size, total_bytes, end_address, rom_address,
                   chunk_buffer, bufferIndex, write_pin, sioRd, rd,
                   ale_low_pin, ale_high_pin, reset_pin, led_pin, sm_read,
                   smActive, pioPc, pioDelay, osr, x, isr, txFifo, rxFifo,
                   latchHigh, latchLow, cartAddr, rom, pendingWrite, transport,
                   setAddrLog, wordsRead, rdLastWriter, rdLowCycles, sampleLow,
                   sampleRd, swWord>>
    /\ UNCHANGED <<sampleLog, n64_txt>>

\* line 82: sm_read.active(1)
irp_activate ==
    /\ pc = "irp_act"
    /\ smActive' = TRUE
    /\ pc' = "sc_out"
    /\ UNCHANGED <<saRet, rwRet, address, word, buffer, i, checksum, db_size,
                   cart_size, total_bytes, end_address, rom_address,
                   chunk_buffer, bufferIndex, pinMode, pinLevel, write_pin,
                   sioRd, rd, ale_low_pin, ale_high_pin, reset_pin, led_pin,
                   sm_read, pioPc, pioDelay, osr, x, isr, txFifo, rxFifo,
                   latchHigh, latchLow, cartAddr, rom, pendingWrite, transport,
                   setAddrLog, wordsRead, rdLastWriter, rdLowCycles, sampleLow,
                   sampleRd, swWord>>
    /\ UNCHANGED <<sampleLog, n64_txt>>

(***************************************************************************)
(* setup_cart(), lines 84-110                                              *)
(***************************************************************************)
\* line 86: set_pico_address_pins_out()
sc_pins_out ==
    /\ pc = "sc_out"
    /\ pinMode' = set_pico_address_pins_out_mode(pinMode)
    /\ pinLevel' = set_pico_address_pins_out_level(pinLevel)
    /\ pc' = "sc_wr"
    /\ UNCHANGED <<saRet, rwRet, address, word, buffer, i, checksum, db_size,
                   cart_size, total_bytes, end_address, rom_address,
                   chunk_buffer, bufferIndex, write_pin, sioRd, rd,
                   ale_low_pin, ale_high_pin, reset_pin, led_pin, sm_read,
                   smActive, pioPc, pioDelay, osr, x, isr, txFifo, rxFifo,
                   latchHigh, latchLow, cartAddr, rom, pendingWrite, transport,
                   setAddrLog, wordsRead, rdLastWriter, rdLowCycles, sampleLow,
                   sampleRd, swWord>>
    /\ UNCHANGED <<sampleLog, n64_txt>>

\* lines 90-99: RESET, WR, aleL, aleH made outputs (not GPIO 19); write_pin.high()
sc_write_high ==
    /\ pc = "sc_wr"
    /\ write_pin' = 1
    /\ pc' = "sc_al"
    /\ UNCHANGED <<saRet, rwRet, address, word, buffer, i, checksum, db_size,
                   cart_size, total_bytes, end_address, rom_address,
                   chunk_buffer, bufferIndex, pinMode, pinLevel, sioRd, rd,
                   ale_low_pin, ale_high_pin, reset_pin, led_pin, sm_read,
                   smActive, pioPc, pioDelay, osr, x, isr, txFifo, rxFifo,
                   latchHigh, latchLow, cartAddr, rom, pendingWrite, transport,
                   setAddrLog, wordsRead, rdLastWriter, rdLowCycles, sampleLow,
                   sampleRd, swWord>>
    /\ UNCHANGED <<sampleLog, n64_txt>>

\* line 103: ale_low_pin.low(); a falling edge latches the bus
sc_ale_low_low ==
    /\ pc = "sc_al"
    /\ ale_low_pin' = 0
    /\ latchLow' = IF ale_low_pin = 1 THEN BusWord(pinLevel) ELSE latchLow
    /\ cartAddr' = IF ale_low_pin = 1 THEN latchHigh * 65536 + latchLow' ELSE cartAddr
    /\ pc' = "sc_ah"
    /\ UNCHANGED <<saRet, rwRet, address, word, buffer, i, checksum, db_size,
                   cart_size, total_bytes, end_address, rom_address,
                   chunk_buffer, bufferIndex, pinMode, pinLevel, write_pin,
                   sioRd, rd, ale_high_pin, reset_pin, led_pin, sm_read,
                   smActive, pioPc, pioDelay, osr, x, isr, txFifo, rxFifo,
                   latchHigh, rom, pendingWrite, transport, setAddrLog,
                   wordsRead, rdLastWriter, rdLowCycles, sampleLow, sampleRd,
                   swWord>>
    /\ UNCHANGED <<sampleLog, n64_txt>>

\* line 104: ale_high_pin.high()
sc_ale_high_high ==
    /\ pc = "sc_ah"
    /\ ale_high_pin' = 1
    /\ pc' = "sc_rst"
    /\ UNCHANGED <<saRet, rwRet, address, word, buffer, i, checksum, db_size,
                   cart_size, total_bytes, end_address, rom_address,
                   chunk_buffer, bufferIndex, pinMode, pinLevel, write_pin,
                   sioRd, rd, ale_low_pin, reset_pin, led_pin, sm_read,
                   smActive, pioPc, pioDelay, osr, x, isr, txFifo, rxFifo,
                   latchHigh, latchLow, cartAddr, rom, pendingWrite, transport,
                   setAddrLog, wordsRead, rdLastWriter, rdLowCycles, sampleLow,
                   sampleRd, swWord>>
    /\ UNCHANGED <<sampleLog, n64_txt>>

\* a variant that leaves reset low (a mutation of the code below)
sc_reset_high_skip ==
    /\ pc = "sc_rst"
    /\ reset_pin' = reset_pin
    /\ pc' = "gci_call"
    /\ UNCHANGED <<saRet, rwRet, address, word, buffer, i, checksum, db_size,
                   cart_size, total_bytes, end_address, rom_address,
                   chunk_buffer, bufferIndex, pinMode, pinLevel, write_pin,
                   sioRd, rd, ale_low_pin, ale_high_pin, led_pin, sm_read,
                   smActive, pioPc, pioDelay, osr, x, isr, txFifo, rxFifo,
                   latchHigh, latchLow, cartAddr, rom, pendingWrite, transport,
                   setAddrLog, wordsRead, rdLastWriter, rdLowCycles, sampleLow,
                   sampleRd, swWord>>
    /\ UNCHANGED <<sampleLog, n64_txt>>

\* lines 107-110: sleep_us(1); reset_pin.high()
sc_reset_high ==
    /\ pc = "sc_rst"
    /\ reset_pin' = 1
    /\ pc' = "gci_call"
    /\ UNCHANGED <<saRet, rwRet, address, word, buffer, i, checksum, db_size,
                   cart_size, total_bytes, end_address, rom_address,
                   chunk_buffer, bufferIndex, pinMode, pinLevel, write_pin,
                   sioRd, rd, ale_low_pin, ale_high_pin, led_pin, sm_read,
                   smActive, pioPc, pioDelay, osr, x, isr, txFifo, rxFifo,
                   latchHigh, latchLow, cartAddr, rom, pendingWrite, transport,
                   setAddrLog, wordsRead, rdLastWriter, rdLowCycles, sampleLow,
                   sampleRd, swWord>>
    /\ UNCHANGED <<sampleLog, n64_txt>>

(***************************************************************************)
(* read_word(), lines 157-169                                              *)
(***************************************************************************)
\* a variant without the None test (a mutation of the code below)
rw_check_unchecked ==
    /\ pc = "rw_check"
    /\ pc' = "rw_put"
    /\ UNCHANGED <<saRet, rwRet, address, word, buffer, i, checksum, db_size,
                   cart_size, total_bytes, end_address, rom_address,
                   chunk_buffer, bufferIndex, pinMode, pinLevel, write_pin,
                   sioRd, rd, ale_low_pin, ale_high_pin, reset_pin, led_pin,
                   sm_read, smActive, pioPc, pioDelay, osr, x, isr, txFifo,
                   rxFifo, latchHigh, latchLow, cartAddr, rom, pendingWrite,
                   transport, setAddrLog, wordsRead, rdLastWriter, rdLowCycles,
                   sampleLow, sampleRd, swWord>>
    /\ UNCHANGED <<sampleLog, n64_txt>>

\* lines 162-165: raise RuntimeError when sm_read is None
rw_check ==
    /\ pc = "rw_check"
    /\ pc' = IF sm_read = "None" THEN "raised" ELSE "rw_put"
    /\ UNCHANGED <<saRet, rwRet, address, word, buffer, i, checksum, db_size,
                   cart_size, total_bytes, end_address, rom_address,
                   chunk_buffer, bufferIndex, pinMode, pinLevel, write_pin,
                   sioRd, rd, ale_low_pin, ale_high_pin, reset_pin, led_pin,
                   sm_read, smActive, pioPc, pioDelay, osr, x, isr, txFifo,
                   rxFifo, latchHigh, latchLow, cartAddr, rom, pendingWrite,
                   transport, setAddrLog, wordsRead, rdLastWriter, rdLowCycles,
                   sampleLow, sampleRd, swWord>>
    /\ UNCHANGED <<sampleLog, n64_txt>>

\* line 167: sm_read.put(0), blocking while the TX FIFO is full
rw_put ==
    /\ pc = "rw_put"
    /\ Len(txFifo) < FifoDepth
    /\ txFifo' = Append(txFifo, 0)
    /\ pc' = "rw_get"
    /\ UNCHANGED <<saRet, rwRet, address, word, buffer, i, checksum, db_size,
                   cart_size, total_bytes, end_address, rom_address,
                   chunk_buffer, bufferIndex, pinMode, pinLevel, write_pin,
                   sioRd, rd, ale_low_pin, ale_high_pin, reset_pin, led_pin,
                   sm_read, smActive, pioPc, pioDelay, osr, x, isr, rxFifo,
                   latchHigh, latchLow, cartAddr, rom, pendingWrite, transport,
                   setAddrLog, wordsRead, rdLastWriter, rdLowCycles, sampleLow,
                   sampleRd, swWord>>
    /\ UNCHANGED <<sampleLog, n64_txt>>

\* lines 168-169: word = sm_read.get(), blocking while the RX FIFO is empty;
\* return word
rw_get ==
    /\ pc = "rw_get"
    /\ rxFifo # <<>>
    /\ word' = Head(rxFifo)
    /\ rxFifo' = Tail(rxFifo)
    /\ wordsRead' = Append(wordsRead, word')
    /\ pc' = rwRet
    /\ UNCHANGED <<saRet, rwRet, address, buffer, i, checksum, db_size,
                   cart_size, total_bytes, end_address, rom_address,
                   chunk_buffer, bufferIndex, pinMode, pinLevel, write_pin,
                   sioRd, rd, ale_low_pin, ale_high_pin, reset_pin, led_pin,
                   sm_read, smActive, pioPc, pioDelay, osr, x, isr, txFifo,
                   latchHigh, latchLow, cartAddr, rom, pendingWrite, transport,
                   setAddrLog, rdLastWriter, rdLowCycles, sampleLow, sampleRd,
                   swWord>>
    /\ UNCHANGED <<sampleLog, n64_txt>>

(***************************************************************************)
(* get_cart_id(), lines 177-192                                            *)
(***************************************************************************)
\* a variant that reads without set_address (a mutation of the code below)
gci_call_skip ==
    /\ pc = "gci_call"
    /\ address' = rom_base_address
    /\ saRet' = "gci_buf"
    /\ setAddrLog' = setAddrLog
    /\ wordsRead' = <<>>
    /\ pc' = "gci_buf"
    /\ UNCHANGED <<rwRet, word, buffer, i, checksum, db_size, cart_size,
                   total_bytes, end_address, rom_address, chunk_buffer,
                   bufferIndex, pinMode, pinLevel, write_pin, sioRd, rd,
                   ale_low_pin, ale_high_pin, reset_pin, led_pin, sm_read,
                   smActive, pioPc, pioDelay, osr, x, isr, txFifo, rxFifo,
                   latchHigh, latchLow, cartAddr, rom, pendingWrite, transport,
                   rdLastWriter, rdLowCycles, sampleLow, sampleRd, swWord>>
    /\ sampleLog' = <<>>
    /\ UNCHANGED n64_txt

\* line 179: set_address(rom_base_address)
gci_call ==
    /\ pc = "gci_call"
    /\ address' = rom_base_address
    /\ saRet' = "gci_buf"
    /\ setAddrLog' = Append(setAddrLog, address')
    /\ wordsRead' = <<>>
    /\ pc' = "sa_out"
    /\ UNCHANGED <<rwRet, word, buffer, i, checksum, db_size, cart_size,
                   total_bytes, end_address, rom_address, chunk_buffer,
                   bufferIndex, pinMode, pinLevel, write_pin, sioRd, rd,
                   ale_low_pin, ale_high_pin, reset_pin, led_pin, sm_read,
                   smActive, pioPc, pioDelay, osr, x, isr, txFifo, rxFifo,
                   latchHigh, latchLow, cartAddr, rom, pendingWrite, transport,
                   rdLastWriter, rdLowCycles, sampleLow, sampleRd, swWord>>
    /\ sampleLog' = <<>>
    /\ UNCHANGED n64_txt

\* line 180: buffer = bytearray(64)
gci_buf ==
    /\ pc = "gci_buf"
    /\ buffer' = Zeros(HeaderBytes)
    /\ i' = 0
    /\ pc' = "gci_loop"
    /\ UNCHANGED <<saRet, rwRet, address, word, checksum, db_size, cart_size,
                   total_bytes, end_address, rom_address, chunk_buffer,
                   bufferIndex, pinMode, pinLevel, write_pin, sioRd, rd,
                   ale_low_pin, ale_high_pin, reset_pin, led_pin, sm_read,
                   smActive, pioPc, pioDelay, osr, x, isr, txFifo, rxFifo,
                   latchHigh, latchLow, cartAddr, rom, pendingWrite, transport,
                   setAddrLog, wordsRead, rdLastWriter, rdLowCycles, sampleLow,
                   sampleRd, swWord>>
    /\ UNCHANGED <<sampleLog, n64_txt>>

\* lines 181-182: for i in range(0, 64, 2): word = read_word()
gci_loop ==
    /\ pc = "gci_loop"
    /\ IF i < HeaderBytes
       THEN pc' = "rw_check" /\ rwRet' = "gci_store"
       ELSE pc' = "gci_sum" /\ rwRet' = rwRet
    /\ UNCHANGED <<saRet, address, word, buffer, i, checksum, db_size,
                   cart_size, total_bytes, end_address, rom_address,
                   chunk_buffer, bufferIndex, pinMode, pinLevel, write_pin,
                   sioRd, rd, ale_low_pin, ale_high_pin, reset_pin, led_pin,
                   sm_read, smActive, pioPc, pioDelay, osr, x, isr, txFifo,
                   rxFifo, latchHigh, latchLow, cartAddr, rom, pendingWrite,
                   transport, setAddrLog, wordsRead, rdLastWriter, rdLowCycles,
                   sampleLow, sampleRd, swWord>>
    /\ UNCHANGED <<sampleLog, n64_txt>>

\* lines 183-186: buffer[i] = high_byte; buffer[i + 1] = low_byte
gci_store ==
    /\ pc = "gci_store"
    /\ buffer' = store_word(buffer, i, word)
    /\ i' = i + 2
    /\ pc' = "gci_loop"
    /\ UNCHANGED <<saRet, rwRet, address, word, checksum, db_size, cart_size,
                   total_bytes, end_address, rom_address, chunk_buffer,
                   bufferIndex, pinMode, pinLevel, write_pin, sioRd, rd,
                   ale_low_pin, ale_high_pin, reset_pin, led_pin, sm_read,
                   smActive, pioPc, pioDelay, osr, x, isr, txFifo, rxFifo,
                   latchHigh, latchLow, cartAddr, rom, pendingWrite, transport,
                   setAddrLog, wordsRead, rdLastWriter, rdLowCycles, sampleLow,
                   sampleRd, swWord>>
    /\ UNCHANGED <<sampleLog, n64_txt>>

\* lines 189-192: the checksum string; return buffer, checksum_str
gci_checksum ==
    /\ pc = "gci_sum"
    /\ checksum' = checksum_str(buffer)
    /\ pc' = "m_db"
    /\ UNCHANGED <<saRet, rwRet, address, word, buffer, i, db_size, cart_size,
                   total_bytes, end_address, rom_address, chunk_buffer,
                   bufferIndex, pinMode, pinLevel, write_pin, sioRd, rd,
                   ale_low_pin, ale_high_pin, reset_pin, led_pin, sm_read,
                   smActive, pioPc, pioDelay, osr, x, isr, txFifo, rxFifo,
                   latchHigh, latchLow, cartAddr, rom, pendingWrite, transport,
                   setAddrLog, wordsRead, rdLastWriter, rdLowCycles, sampleLow,
                   sampleRd, swWord>>
    /\ UNCHANGED <<sampleLog, n64_txt>>

(***************************************************************************)
(* main(), lines 293-308 (cart_name, lines 293-298, is never used)         *)
(***************************************************************************)
\* line 301: db_size = get_cart_size_from_db(checksum)
m_lookup ==
    /\ pc = "m_db"
    /\ db_size' = get_cart_size_from_db(n64_txt, checksum)
    /\ pc' = "m_size"
    /\ UNCHANGED <<saRet, rwRet, address, word, buffer, i, checksum, cart_size,
                   total_bytes, end_address, rom_address, chunk_buffer,
                   bufferIndex, pinMode, pinLevel, write_pin, sioRd, rd,
                   ale_low_pin, ale_high_pin, reset_pin, led_pin, sm_read,
                   smActive, pioPc, pioDelay, osr, x, isr, txFifo, rxFifo,
                   latchHigh, latchLow, cartAddr, rom, pendingWrite, transport,
                   setAddrLog, wordsRead, rdLastWriter, rdLowCycles, sampleLow,
                   sampleRd, swWord>>
    /\ UNCHANGED <<sampleLog, n64_txt>>

\* lines 302-306: if db_size > 0: cart_size = db_size
m_size ==
    /\ pc = "m_size"
    /\ cart_size' = resolve_size(db_size, cart_size)
    /\ pc' = "rc_init"
    /\ UNCHANGED <<saRet, rwRet, address, word, buffer, i, checksum, db_size,
                   total_bytes, end_address, rom_address, chunk_buffer,
                   bufferIndex, pinMode, pinLevel, write_pin, sioRd, rd,
                   ale_low_pin, ale_high_pin, reset_pin, led_pin, sm_read,
                   smActive, pioPc, pioDelay, osr, x, isr, txFifo, rxFifo,
                   latchHigh, latchLow, cartAddr, rom, pendingWrite, transport,
                   setAddrLog, wordsRead, rdLastWriter, rdLowCycles, sampleLow,
                   sampleRd, swWord>>
    /\ UNCHANGED <<sampleLog, n64_txt>>

(***************************************************************************)
(* read_cart(), lines 246-280                                              *)
(***************************************************************************)
\* lines 249-256: total_bytes, end_address, the first rom_address
rc_init ==
    /\ pc = "rc_init"
    /\ total_bytes' = cart_size * 1024 * 1024
    /\ end_address' = rom_base_address + total_bytes'
    /\ rom_address' = rom_base_address
    /\ pc' = "rc_loop"
    /\ UNCHANGED <<saRet, rwRet, address, word, buffer, i, checksum, db_size,
                   cart_size, chunk_buffer, bufferIndex, pinMode, pinLevel,
                   write_pin, sioRd, rd, ale_low_pin, ale_high_pin, reset_pin,
                   led_pin, sm_read, smActive, pioPc, pioDelay, osr, x, isr,
                   txFifo, rxFifo, latchHigh, latchLow, cartAddr, rom,
                   pendingWrite, transport, setAddrLog, wordsRead,
                   rdLastWriter, rdLowCycles, sampleLow, sampleRd, swWord>>
    /\ UNCHANGED <<sampleLog, n64_txt>>

\* a variant whose range includes end_address (a mutation of the code below)
rc_loop_inclusive ==
    /\ pc = "rc_loop"
    /\ Len(setAddrLog) <= MaxChunks
    /\ IF rom_address <= end_address
       THEN /\ address' = rom_address /\ saRet' = "rc_buf"
            /\ setAddrLog' = Append(setAddrLog, rom_address)
            /\ wordsRead' = <<>> /\ pc' = "sa_out"
       ELSE /\ pc' = "rc_end"
            /\ UNCHANGED <<address, saRet, setAddrLog, wordsRead>>
    /\ UNCHANGED <<rwRet, word, buffer, i, checksum, db_size, cart_size,
                   total_bytes, end_address, rom_address, chunk_buffer,
                   bufferIndex, pinMode, pinLevel, write_pin, sioRd, rd,
                   ale_low_pin, ale_high_pin, reset_pin, led_pin, sm_read,
                   smActive, pioPc, pioDelay, osr, x, isr, txFifo, rxFifo,
                   latchHigh, latchLow, cartAddr, rom, pendingWrite, transport,
                   rdLastWriter, rdLowCycles, sampleLow, sampleRd, swWord>>
    /\ sampleLog' = IF rom_address < end_address THEN <<>> ELSE sampleLog
    /\ UNCHANGED n64_txt

\* lines 256-258: the range test, then set_address(rom_address); the model
\* follows the first MaxChunks chunks
rc_loop ==
    /\ pc = "rc_loop"
    /\ Len(setAddrLog) <= MaxChunks
    /\ IF rom_address < end_address
       THEN /\ address' = rom_address /\ saRet' = "rc_buf"
            /\ setAddrLog' = Append(setAddrLog, rom_address)
            /\ wordsRead' = <<>> /\ pc' = "sa_out"
       ELSE /\ pc' = "rc_end"
            /\ UNCHANGED <<address, saRet, setAddrLog, wordsRead>>
    /\ UNCHANGED <<rwRet, word, buffer, i, checksum, db_size, cart_size,
                   total_bytes, end_address, rom_address, chunk_buffer,
                   bufferIndex, pinMode, pinLevel, write_pin, sioRd, rd,
                   ale_low_pin, ale_high_pin, reset_pin, led_pin, sm_read,
                   smActive, pioPc, pioDelay, osr, x, isr, txFifo, rxFifo,
                   latchHigh, latchLow, cartAddr, rom, pendingWrite, transport,
                   rdLastWriter, rdLowCycles, sampleLow, sampleRd, swWord>>
    /\ sampleLog' = IF rom_address < end_address THEN <<>> ELSE sampleLog
    /\ UNCHANGED n64_txt

\* line 261: chunk_buffer = bytearray(512)
rc_buf ==
    /\ pc = "rc_buf"
    /\ chunk_buffer' = Zeros(ChunkBytes)
    /\ bufferIndex' = 0
    /\ pc' = "rc_word"
    /\ UNCHANGED <<saRet, rwRet, address, word, buffer, i, checksum, db_size,
                   cart_size, total_bytes, end_address, rom_address, pinMode,
                   pinLevel, write_pin, sioRd, rd, ale_low_pin, ale_high_pin,
                   reset_pin, led_pin, sm_read, smActive, pioPc, pioDelay, osr,
                   x, isr, txFifo, rxFifo, latchHigh, latchLow, cartAddr, rom,
                   pendingWrite, transport, setAddrLog, wordsRead,
                   rdLastWriter, rdLowCycles, sampleLow, sampleRd, swWord>>
    /\ UNCHANGED <<sampleLog, n64_txt>>

\* lines 263-264: for bufferIndex in range(0, 512, 2): word = read_word()
rc_word ==
    /\ pc = "rc_word"
    /\ IF bufferIndex < ChunkBytes
       THEN pc' = "rw_check" /\ rwRet' = "rc_store"
       ELSE pc' = "rc_write" /\ rwRet' = rwRet
    /\ UNCHANGED <<saRet, address, word, buffer, i, checksum, db_size,
                   cart_size, total_bytes, end_address, rom_address,
                   chunk_buffer, bufferIndex, pinMode, pinLevel, write_pin,
                   sioRd, rd, ale_low_pin, ale_high_pin, reset_pin, led_pin,
                   sm_read, smActive, pioPc, pioDelay, osr, x, isr, txFifo,
                   rxFifo, latchHigh, latchLow, cartAddr, rom, pendingWrite,
                   transport, setAddrLog, wordsRead, rdLastWriter, rdLowCycles,
                   sampleLow, sampleRd, swWord>>
    /\ UNCHANGED <<sampleLog, n64_txt>>

\* lines 267-268: chunk_buffer[bufferIndex] = word >> 8; [bufferIndex + 1] = word & 0xFF
rc_store ==
    /\ pc = "rc_store"
    /\ chunk_buffer' = store_word(chunk_buffer, bufferIndex, word)
    /\ bufferIndex' = bufferIndex + 2
    /\ pc' = "rc_word"
    /\ UNCHANGED <<saRet, rwRet, address, word, buffer, i, checksum, db_size,
                   cart_size, total_bytes, end_address, rom_address, pinMode,
                   pinLevel, write_pin, sioRd, rd, ale_low_pin, ale_high_pin,
                   reset_pin, led_pin, sm_read, smActive, pioPc, pioDelay, osr,
                   x, isr, txFifo, rxFifo, latchHigh, latchLow, cartAddr, rom,
                   pendingWrite, transport, setAddrLog, wordsRead,
                   rdLastWriter, rdLowCycles, sampleLow, sampleRd, swWord>>
    /\ UNCHANGED <<sampleLog, n64_txt>>

\* line 271: writer.write(chunk_buffer)
rc_write ==
    /\ pc = "rc_write"
    /\ pendingWrite' = Append(pendingWrite, chunk_buffer)
    /\ pc' = "rc_drain"
    /\ UNCHANGED <<saRet, rwRet, address, word, buffer, i, checksum, db_size,
                   cart_size, total_bytes, end_address, rom_address,
                   chunk_buffer, bufferIndex, pinMode, pinLevel, write_pin,
                   sioRd, rd, ale_low_pin, ale_high_pin, reset_pin, led_pin,
                   sm_read, smActive, pioPc, pioDelay, osr, x, isr, txFifo,
                   rxFifo, latchHigh, latchLow, cartAddr, rom, transport,
                   setAddrLog, wordsRead, rdLastWriter, rdLowCycles, sampleLow,
                   sampleRd, swWord>>
    /\ UNCHANGED <<sampleLog, n64_txt>>

\* a variant that does not wait for the drain (a mutation of the code below)
rc_drain_skip ==
    /\ pc = "rc_drain"
    /\ transport' = transport
    /\ pendingWrite' = pendingWrite
    /\ pc' = "rc_led"
    /\ UNCHANGED <<saRet, rwRet, address, word, buffer, i, checksum, db_size,
                   cart_size, total_bytes, end_address, rom_address,
                   chunk_buffer, bufferIndex, pinMode, pinLevel, write_pin,
                   sioRd, rd, ale_low_pin, ale_high_pin, reset_pin, led_pin,
                   sm_read, smActive, pioPc, pioDelay, osr, x, isr, txFifo,
                   rxFifo, latchHigh, latchLow, cartAddr, rom, setAddrLog,
                   wordsRead, rdLastWriter, rdLowCycles, sampleLow, sampleRd,
                   swWord>>
    /\ UNCHANGED <<sampleLog, n64_txt>>

\* line 272: await writer.drain()
rc_drain ==
    /\ pc = "rc_drain"
    /\ transport' = transport \o pendingWrite
    /\ pendingWrite' = <<>>
    /\ pc' = "rc_led"
    /\ UNCHANGED <<saRet, rwRet, address, word, buffer, i, checksum, db_size,
                   cart_size, total_bytes, end_address, rom_address,
                   chunk_buffer, bufferIndex, pinMode, pinLevel, write_pin,
                   sioRd, rd, ale_low_pin, ale_high_pin, reset_pin, led_pin,
                   sm_read, smActive, pioPc, pioDelay, osr, x, isr, txFifo,
                   rxFifo, latchHigh, latchLow, cartAddr, rom, setAddrLog,
                   wordsRead, rdLastWriter, rdLowCycles, sampleLow, sampleRd,
                   swWord>>
    /\ UNCHANGED <<sampleLog, n64_txt>>

\* a variant whose range does not step (a mutation of the code below)
rc_led_stay ==
    /\ pc = "rc_led"
    /\ led_pin' = IF LowBits(rom_address, 14) = 0 THEN 1 ELSE 0
    /\ rom_address' = rom_address
    /\ pc' = "rc_loop"
    /\ UNCHANGED <<saRet, rwRet, address, word, buffer, i, checksum, db_size,
                   cart_size, total_bytes, end_address, chunk_buffer,
                   bufferIndex, pinMode, pinLevel, write_pin, sioRd, rd,
                   ale_low_pin, ale_high_pin, reset_pin, sm_read, smActive,
                   pioPc, pioDelay, osr, x, isr, txFifo, rxFifo, latchHigh,
                   latchLow, cartAddr, rom, pendingWrite, transport,
                   setAddrLog, wordsRead, rdLastWriter, rdLowCycles, sampleLow,
                   sampleRd, swWord>>
    /\ UNCHANGED <<sampleLog, n64_txt>>

\* lines 275-278 and the step of the range: the LED, then the next rom_address
rc_led ==
    /\ pc = "rc_led"
    /\ led_pin' = IF LowBits(rom_address, 14) = 0 THEN 1 ELSE 0
    /\ rom_address' = rom_address + ChunkBytes
    /\ pc' = "rc_loop"
    /\ UNCHANGED <<saRet, rwRet, address, word, buffer, i, checksum, db_size,
                   cart_size, total_bytes, end_address, chunk_buffer,
                   bufferIndex, pinMode, pinLevel, write_pin, sioRd, rd,
                   ale_low_pin, ale_high_pin, reset_pin, sm_read, smActive,
                   pioPc, pioDelay, osr, x, isr, txFifo, rxFifo, latchHigh,
                   latchLow, cartAddr, rom, pendingWrite, transport,
                   setAddrLog, wordsRead, rdLastWriter, rdLowCycles, sampleLow,
                   sampleRd, swWord>>
    /\ UNCHANGED <<sampleLog, n64_txt>>

(***************************************************************************)
(* The PIO state machine running read_word_pio, one action per cycle.      *)
(* A side-set acts in the cycle of its instruction; read-enable is counted *)
(* low from the end of that cycle (the comment of line 35).                *)
(***************************************************************************)
Ins == read_word_pio[pioPc]

PioReady(o) == sm_read # "None" /\ smActive /\ pioDelay = 0 /\ Ins.op = o

\* what every executed instruction does: side-set, delay, next instruction
PioAdvance ==
    LET nr == IF Ins.side = -1 THEN rd ELSE Ins.side
    IN  /\ pioPc' = IF pioPc = Len(read_word_pio) THEN 1 ELSE pioPc + 1
        /\ pioDelay' = Ins.delay
        /\ rd' = nr
        /\ rdLastWriter' = IF Ins.side = -1 THEN rdLastWriter ELSE "pio"
        /\ rdLowCycles' = IF nr = 0 /\ rd = 0 THEN rdLowCycles + 1 ELSE 0
        /\ cartAddr' = IF rd = 0 /\ nr = 1 THEN cartAddr + 2 ELSE cartAddr
        /\ pinLevel' = IF rd = 1 /\ nr = 0
                       THEN Settle(pinMode, 0, pinLevel, cartAddr) ELSE pinLevel

\* line 32: pull(block), stalling while the TX FIFO is empty
PioPull ==
    /\ PioReady("pull")
    /\ txFifo # <<>>
    /\ osr' = Head(txFifo)
    /\ txFifo' = Tail(txFifo)
    /\ PioAdvance
    /\ UNCHANGED <<pc, saRet, rwRet, address, word, buffer, i, checksum,
                   db_size, cart_size, total_bytes, end_address, rom_address,
                   chunk_buffer, bufferIndex, pinMode, write_pin, sioRd,
                   ale_low_pin, ale_high_pin, reset_pin, led_pin, sm_read,
                   smActive, x, isr, rxFifo, latchHigh, latchLow, rom,
                   pendingWrite, transport, setAddrLog, wordsRead, sampleLow,
                   sampleRd, swWord>>
    /\ UNCHANGED <<sampleLog, n64_txt>>

\* line 33: mov(x, osr)
PioMov ==
    /\ PioReady("mov")
    /\ x' = osr
    /\ PioAdvance
    /\ UNCHANGED <<pc, saRet, rwRet, address, word, buffer, i, checksum,
                   db_size, cart_size, total_bytes, end_address, rom_address,
                   chunk_buffer, bufferIndex, pinMode, write_pin, sioRd,
                   ale_low_pin, ale_high_pin, reset_pin, led_pin, sm_read,
                   smActive, osr, isr, txFifo, rxFifo, latchHigh, latchLow,
                   rom, pendingWrite, transport, setAddrLog, wordsRead,
                   sampleLow, sampleRd, swWord>>
    /\ UNCHANGED <<sampleLog, n64_txt>>

\* lines 36-43 and 52: nop() with its side-set and delay
PioNop ==
    /\ PioReady("nop")
    /\ PioAdvance
    /\ UNCHANGED <<pc, saRet, rwRet, address, word, buffer, i, checksum,
                   db_size, cart_size, total_bytes, end_address, rom_address,
                   chunk_buffer, bufferIndex, pinMode, write_pin, sioRd,
                   ale_low_pin, ale_high_pin, reset_pin, led_pin, sm_read,
                   smActive, osr, x, isr, txFifo, rxFifo, latchHigh, latchLow,
                   rom, pendingWrite, transport, setAddrLog, wordsRead,
                   sampleLow, sampleRd, swWord>>
    /\ UNCHANGED <<sampleLog, n64_txt>>

\* one delay cycle of the [n] of the instruction before
PioDelay ==
    /\ sm_read # "None"
    /\ smActive
    /\ pioDelay > 0
    /\ pioDelay' = pioDelay - 1
    /\ rdLowCycles' = IF rd = 0 THEN rdLowCycles + 1 ELSE 0
    /\ UNCHANGED <<pc, saRet, rwRet, address, word, buffer, i, checksum,
                   db_size, cart_size, total_bytes, end_address, rom_address,
                   chunk_buffer, bufferIndex, pinMode, pinLevel, write_pin,
                   sioRd, rd, ale_low_pin, ale_high_pin, reset_pin, led_pin,
                   sm_read, smActive, pioPc, osr, x, isr, txFifo, rxFifo,
                   latchHigh, latchLow, cartAddr, rom, pendingWrite, transport,
                   setAddrLog, wordsRead, rdLastWriter, sampleLow, sampleRd,
                   swWord>>
    /\ UNCHANGED <<sampleLog, n64_txt>>

\* line 46: in_(pins, 16), shifting the ISR left
PioIn ==
    /\ PioReady("in")
    /\ isr' = LowBits(isr, 16) * 65536 + pio_in_pins(pinLevel)
    /\ sampleLow' = rdLowCycles
    /\ sampleRd' = rd
    /\ swWord' = read_word_from_address_pins(pinLevel)
    /\ PioAdvance
    /\ UNCHANGED <<pc, saRet, rwRet, address, word, buffer, i, checksum,
                   db_size, cart_size, total_bytes, end_address, rom_address,
                   chunk_buffer, bufferIndex, pinMode, write_pin, sioRd,
                   ale_low_pin, ale_high_pin, reset_pin, led_pin, sm_read,
                   smActive, osr, x, txFifo, rxFifo, latchHigh, latchLow, rom,
                   pendingWrite, transport, setAddrLog, wordsRead>>
    /\ sampleLog' = Append(sampleLog, pio_in_pins(pinLevel))
    /\ UNCHANGED n64_txt

\* line 49: push(), stalling while the RX FIFO is full
PioPush ==
    /\ PioReady("push")
    /\ Len(rxFifo) < FifoDepth
    /\ rxFifo' = Append(rxFifo, isr)
    /\ isr' = 0
    /\ PioAdvance
    /\ UNCHANGED <<pc, saRet, rwRet, address, word, buffer, i, checksum,
                   db_size, cart_size, total_bytes, end_address, rom_address,
                   chunk_buffer, bufferIndex, pinMode, write_pin, sioRd,
                   ale_low_pin, ale_high_pin, reset_pin, led_pin, sm_read,
                   smActive, osr, x, txFifo, latchHigh, latchLow, rom,
                   pendingWrite, transport, setAddrLog, wordsRead, sampleLow,
                   sampleRd, swWord>>
    /\ UNCHANGED <<sampleLog, n64_txt>>

Next ==
    \/ main_start
    \/ irp_construct \/ irp_pins_in \/ irp_activate
    \/ sc_pins_out \/ sc_write_high \/ sc_ale_low_low \/ sc_ale_high_high
    \/ sc_reset_high
    \/ sa_pins_out \/ sa_write_high \/ sa_read_high \/ sa_ale_low_high
    \/ sa_ale_high_high \/ sa_write_word_high \/ sa_ale_high_low
    \/ sa_write_word_low \/ sa_ale_low_low \/ sa_pins_in
    \/ rw_check \/ rw_put \/ rw_get
    \/ gci_call \/ gci_buf \/ gci_loop \/ gci_store \/ gci_checksum
    \/ m_lookup \/ m_size
    \/ rc_init \/ rc_loop \/ rc_buf \/ rc_word \/ rc_store \/ rc_write
    \/ rc_drain \/ rc_led
    \/ PioPull \/ PioMov \/ PioNop \/ PioDelay \/ PioIn \/ PioPush

Spec == Init /\ [][Next]_vars

(***************************************************************************)
(* A harness for the lookup alone: main from line 300 (the lookup) to      *)
(* line 306 (the size it leaves in cart_size), for any sample file and     *)
(* any sample checksum.                                                    *)
(***************************************************************************)
InitDb ==
    /\ InitCommon
    /\ pinLevel = [g \in GPIOs |-> 0]
    /\ ale_low_pin = 0 /\ ale_high_pin = 0 /\ rd = 1 /\ rom = "A"
    /\ n64_txt \in DbSamples
    /\ checksum \in ChecksumSamples
    /\ pc = "m_db"
    /\ pinMode = [g \in GPIOs |-> "IN"]

NextDb == m_lookup \/ m_size

SpecDb == InitDb /\ [][NextDb]_vars

(***************************************************************************)
(* The end of the sweep.  A sweep is cart_size * 2048 chunks of 256 words, *)
(* so its end is followed from inside the last chunk, at the head of the   *)
(* word loop with TailWords words to go: the state read_cart is in there   *)
(* when the state machine has kept pace (or is still on its last           *)
(* nop().side(1)), with setAddrLog and the transport recording the last    *)
(* chunk only.                                                             *)
(***************************************************************************)
TailWords == 2

\* the n words read_word returns from address a on, one after the other
WordsAt(r, a, n) == [k \in 1 .. n |-> pio_in_pins(CartDriven(RomWord(r, a + 2 * (k - 1))))]

\* lines 183-186 and 267-268 over a whole buffer
BytesOf(ws) ==
    [j \in 1 .. 2 * Len(ws) |->
        IF j % 2 = 1 THEN Shr(ws[(j + 1) \div 2], 8) ELSE LowBits(ws[j \div 2], 8)]

InitTail ==
    /\ rom \in RomImages
    /\ n64_txt \in DbFiles
    /\ buffer = BytesOf(WordsAt(rom, rom_base_address, HeaderBytes \div 2))
    /\ i = HeaderBytes
    /\ checksum = checksum_str(buffer)
    /\ db_size = get_cart_size_from_db(n64_txt, checksum)
    /\ cart_size = resolve_size(db_size, default_cart_size)
    /\ total_bytes = cart_size * 1024 * 1024
    /\ end_address = rom_base_address + total_bytes
    /\ rom_address = end_address - ChunkBytes
    /\ pc = "rc_word"
    /\ address = rom_address
    /\ saRet = "rc_buf" /\ rwRet = "rc_store"
    /\ bufferIndex = ChunkBytes - 2 * TailWords
    /\ wordsRead = WordsAt(rom, address, bufferIndex \div 2)
    /\ sampleLog = wordsRead
    /\ word = wordsRead[Len(wordsRead)]
    /\ chunk_buffer = BytesOf(wordsRead) \o Zeros(ChunkBytes - bufferIndex)
    /\ pinMode = [g \in GPIOs |-> "IN"]
    /\ pinLevel = CartDriven(RomWord(rom, rom_address + bufferIndex - 2))
    /\ write_pin = 1 /\ reset_pin = 1 /\ ale_low_pin = 0 /\ ale_high_pin = 0
    /\ led_pin = IF LowBits(address - ChunkBytes, 14) = 0 THEN 1 ELSE 0
    /\ sioRd = 1
    /\ sm_read = "SM0" /\ smActive = TRUE /\ pioDelay = 0
    /\ pioPc \in {1, Len(read_word_pio)}
    /\ rd = IF pioPc = 1 THEN 1 ELSE 0
    \* read-enable has been low for the 25 cycles of lines 38-42, in_ and push
    /\ rdLowCycles = IF pioPc = 1 THEN 0 ELSE 27
    /\ cartAddr = rom_address + bufferIndex - (IF pioPc = 1 THEN 0 ELSE 2)
    /\ osr = 0 /\ x = 0 /\ isr = 0 /\ txFifo = <<>> /\ rxFifo = <<>>
    /\ latchHigh = address_high(address) /\ latchLow = address_low(address)
    /\ pendingWrite = <<>> /\ transport = <<>>
    /\ setAddrLog = <<address>>
    /\ rdLastWriter = "pio"
    /\ sampleLow = 25 /\ sampleRd = 0
    /\ swWord = read_word_from_address_pins(pinLevel)

\* line 280, after the loop: led_pin.low(); read_cart returns, then main
rc_end ==
    /\ pc = "rc_end"
    /\ led_pin' = 0
    /\ pc' = "done"
    /\ UNCHANGED <<saRet, rwRet, address, word, buffer, i, checksum, db_size,
                   cart_size, total_bytes, end_address, rom_address,
                   chunk_buffer, bufferIndex, pinMode, pinLevel, write_pin,
                   sioRd, rd, ale_low_pin, ale_high_pin, reset_pin, sm_read,
                   smActive, pioPc, pioDelay, osr, x, isr, txFifo, rxFifo,
                   latchHigh, latchLow, cartAddr, rom, pendingWrite, transport,
                   setAddrLog, wordsRead, rdLastWriter, rdLowCycles, sampleLow,
                   sampleRd, swWord>>
    /\ UNCHANGED <<sampleLog, n64_txt>>

NextTail ==
    \/ rw_check \/ rw_put \/ rw_get
    \/ rc_loop \/ rc_word \/ rc_store \/ rc_write \/ rc_drain
    \/ rc_led \/ rc_end
    \/ PioPull \/ PioMov \/ PioNop \/ PioDelay \/ PioIn \/ PioPush

SpecTail == InitTail /\ [][NextTail]_vars

(***************************************************************************)
(* A harness for read_word without the state machine: a caller that runs   *)
(* setup_cart and get_cart_id, or read_cart, on the freshly loaded module  *)
(* (sm_read = None, line 58) without initialize_read_pio.                  *)
(***************************************************************************)
InitNoEngine ==
    /\ InitCommon
    /\ n64_txt = ENOENT
    /\ checksum = <<>>
    /\ pc \in {"sc_out", "rc_init"}
    /\ pinMode = [g \in GPIOs |-> "OUT"]

NextNoEngine ==
    \/ sc_pins_out \/ sc_write_high \/ sc_ale_low_low \/ sc_ale_high_high
    \/ sc_reset_high
    \/ sa_pins_out \/ sa_write_high \/ sa_read_high \/ sa_ale_low_high
    \/ sa_ale_high_high \/ sa_write_word_high \/ sa_ale_high_low
    \/ sa_write_word_low \/ sa_ale_low_low \/ sa_pins_in
    \/ gci_call \/ gci_buf \/ gci_loop
    \/ rc_init \/ rc_loop \/ rc_buf \/ rc_word
    \/ rw_check

SpecNoEngine == InitNoEngine /\ [][NextNoEngine]_vars

(***************************************************************************)
(* Positions used by the properties                                        *)
(***************************************************************************)
\* inside the body of set_address
SetAddressPcs == {"sa_out", "sa_wr", "sa_rd", "sa_al", "sa_ah", "sa_whi",
                  "sa_ahl", "sa_wlo", "sa_all", "sa_in"}

\* set_address has just returned to its caller
SetAddressReturned == saRet # "" /\ pc = saRet

\* read_word has just returned a word to its caller
ReadWordReturned == rwRet # "" /\ pc = rwRet

\* cycles of read-enable low the comment of line 38 asks for before sampling
MinSetupCycles == 25

(***************************************************************************)
(* C1  set_address latches the two halves of the address                   *)
(***************************************************************************)
\* C1: when set_address(A) has returned, the high-order latch holds the bus
\* value it captured when its latch line fell, and that is A >> 16; the
\* low-order latch holds A & 0xFFFF (bus value: bit i = level of
\* address_pins[i]).
C1_LatchesHoldAddress ==
    SetAddressReturned =>
        /\ latchHigh = address \div 65536
        /\ latchLow = address % 65536

\* set_address(0x55AA33CC) has returned with 0x55AA and 0x33CC latched
C1_Witness ==
    /\ SetAddressReturned
    /\ address = 1437217740
    /\ latchHigh = 21930
    /\ latchLow = 13260

C3_LatchLinesHighAtReturn ==
    SetAddressReturned => ale_high_pin = 1 /\ ale_low_pin = 1

\* C3 (amended): inside set_address both latch lines are first driven high;
\* the high-order line is driven low after the high 16 bits are on the bus
\* and before the low 16 bits are driven, the low-order line is driven low
\* after the low 16 bits are on the bus and before the lines become inputs;
\* neither is driven high again, so both are low when set_address returns.
C3_LatchLinesLowAtReturn ==
    /\ pc \in {"sa_whi", "sa_ahl"} => ale_high_pin = 1 /\ ale_low_pin = 1
    /\ pc \in {"sa_wlo", "sa_all"} => ale_high_pin = 0 /\ ale_low_pin = 1
    /\ pc = "sa_in" => ale_high_pin = 0 /\ ale_low_pin = 0
    /\ SetAddressReturned => ale_high_pin = 0 /\ ale_low_pin = 0

\* set_address has returned and both latch lines are low
C3_Witness ==
    /\ SetAddressReturned
    /\ address = 268435968
    /\ ale_high_pin = 0
    /\ ale_low_pin = 0

(***************************************************************************)
(* C4  the PIO read against the polled read                                *)
(***************************************************************************)
\* C4: the word read_word returns (sampled by in_(pins, 16) from GPIO
\* in_base upwards) equals the word read_word_from_address_pins gives for
\* the same pin levels, bit i being the level of address_pins[i].
C4_PioReadEqualsPolledRead ==
    ReadWordReturned => word = swWord

(***************************************************************************)
(* C5  read-enable has been low for 25 cycles at the sample                *)
(***************************************************************************)
\* C5: whenever in_(pins, 16) runs, read-enable is low and has been low
\* without interruption for at least 25 PIO cycles.
C5_ReadEnableHeldBeforeSample ==
    /\ sampleLow # -1 => sampleLow >= MinSetupCycles /\ sampleRd = 0
    /\ (sm_read # "None" /\ smActive /\ pioDelay = 0 /\ Ins.op = "in") =>
           rd = 0 /\ rdLowCycles >= MinSetupCycles

\* a word has been sampled, with read-enable low for 25 cycles, and returned
C5_Witness ==
    /\ ReadWordReturned
    /\ sampleLow = 25
    /\ sampleRd = 0

(***************************************************************************)
(* C6  read-enable when read_word returns                                  *)
(***************************************************************************)
\* C6: whenever read_word returns a word, read-enable is back at its
\* inactive (high) level.
C6_ReadEnableHighAtReturn ==
    ReadWordReturned => rd = 1

(***************************************************************************)
(* C7  who writes GPIO 19                                                  *)
(***************************************************************************)
\* C7: once the state machine is active, software never writes the
\* read-enable line (GPIO 19).
C7_NoSoftwareWriteToReadEnable ==
    smActive => rdLastWriter # "cpu"

(***************************************************************************)
(* C8  words to bytes                                                      *)
(***************************************************************************)
\* buf holds ws serialized high byte first, and zeros after that
Serialized(buf, ws) ==
    /\ 2 * Len(ws) <= Len(buf)
    /\ \A k \in 1 .. Len(ws) :
           /\ buf[2 * k - 1] = ws[k] \div 256
           /\ buf[2 * k] = ws[k] % 256
    /\ \A j \in 2 * Len(ws) + 1 .. Len(buf) : buf[j] = 0

\* C8: in get_cart_id and in read_cart the buffer holds, for the words
\* w0, w1, ... read since the set_address, the bytes w0 >> 8, w0 & 0xFF,
\* w1 >> 8, w1 & 0xFF, ... in that order, and it is full (32 words, 256
\* words) when the loop ends.
C8_BufferIsWordsHighByteFirst ==
    /\ pc = "gci_loop" =>
           /\ i = 2 * Len(wordsRead)
           /\ Len(buffer) = HeaderBytes
           /\ Serialized(buffer, wordsRead)
    /\ pc = "gci_sum" =>
           /\ 2 * Len(wordsRead) = HeaderBytes
           /\ Serialized(buffer, wordsRead)
    /\ pc = "rc_word" =>
           /\ bufferIndex = 2 * Len(wordsRead)
           /\ Len(chunk_buffer) = ChunkBytes
           /\ Serialized(chunk_buffer, wordsRead)
    /\ pc = "rc_write" =>
           /\ 2 * Len(wordsRead) = ChunkBytes
           /\ Serialized(chunk_buffer, wordsRead)

\* a chunk is full, and its last word has two different bytes
C8_Witness ==
    /\ pc = "rc_write"
    /\ Len(wordsRead) = 256
    /\ chunk_buffer[511] = wordsRead[256] \div 256
    /\ chunk_buffer[512] = wordsRead[256] % 256
    /\ chunk_buffer[511] # chunk_buffer[512]

(***************************************************************************)
(* C9  get_cart_id                                                         *)
(***************************************************************************)
\* C9: when get_cart_id returns, set_address has been called once, with the
\* ROM base; 32 words have been read; the checksum is the 8 uppercase hex
\* digits of the bytes of the 9th and 10th words, high byte first; bytes
\* AB CD EF 01 at 0x10 give ABCDEF01.
C9_ChecksumOfHeader ==
    pc = "m_db" =>
        /\ setAddrLog = <<rom_base_address>>
        /\ Len(wordsRead) = 32
        /\ checksum = Format02X(wordsRead[9] \div 256)
                        \o Format02X(wordsRead[9] % 256)
                        \o Format02X(wordsRead[10] \div 256)
                        \o Format02X(wordsRead[10] % 256)
        /\ (buffer[17] = 171 /\ buffer[18] = 205 /\ buffer[19] = 239
              /\ buffer[20] = 1)
             => checksum = <<"A", "B", "C", "D", "E", "F", "0", "1">>

\* get_cart_id has returned ABCDEF01
C9_Witness ==
    /\ pc = "m_db"
    /\ buffer[17] = 171
    /\ checksum = <<"A", "B", "C", "D", "E", "F", "0", "1">>

(***************************************************************************)
(* C10  the size of the dump                                               *)
(***************************************************************************)
\* C10 as claimed: the total size is the database size when the lookup
\* finds one, and the result of Size Detection when it finds none.
C10_NoMatchUsesProbe ==
    pc = "rc_loop" =>
        total_bytes = (IF db_size > 0 THEN db_size ELSE detect_size(rom)) * MiB

\* C10 (amended): the total size is the database size when the lookup
\* returns a size above 0; otherwise (no record, no file, or a size of 0) it
\* is the default cart_size of 12 MB; nothing is probed.
C10_NoMatchKeepsDefault ==
    pc \in {"rc_loop", "rc_buf", "rc_word", "rc_store", "rc_write", "rc_drain",
            "rc_led"} =>
        /\ cart_size = (IF db_size > 0 THEN db_size ELSE default_cart_size)
        /\ total_bytes = cart_size * MiB
        /\ end_address = rom_base_address + total_bytes

\* the lookup found nothing and the sweep starts with 12 MB
C10_Witness ==
    /\ pc = "rc_loop"
    /\ db_size = 0
    /\ total_bytes = 12 * MiB

(***************************************************************************)
(* C11  Size Detection                                                     *)
(***************************************************************************)
\* C11 as claimed: when the lookup gives no size, the candidates have been
\* probed in ascending order (a set_address at base + candidate * 1 MB for
\* each, up to the first whose 16 bytes equal the reference), and the size
\* is that first candidate, or 64 when none matches.
C11_ProbesAscendingFirstMatch ==
    (pc = "rc_init" /\ db_size <= 0) =>
        /\ SubSeq(setAddrLog, 2, Len(setAddrLog)) = probe_addresses(rom)
        /\ cart_size = detect_size(rom)

\* C11 (amended): the program has no Size Detection.  Between get_cart_id
\* and the sweep it sets no address and reads no word, so no candidate is
\* probed and no 16-byte sample is compared; when the lookup gives no size
\* the size stays the default 12, whatever the cartridge mirrors.
C11_NoProbeBeforeSweep ==
    pc \in {"m_db", "m_size", "rc_init"} =>
        /\ setAddrLog = <<rom_base_address>>
        /\ Len(wordsRead) = 32
        /\ Len(sampleLog) = 32
        /\ (pc = "rc_init" /\ db_size <= 0) => cart_size = default_cart_size

\* a cartridge that mirrors at the 2nd candidate (8 MB) and is not in the
\* database starts its sweep with 12 MB and nothing probed
C11_Witness ==
    /\ pc = "rc_init"
    /\ db_size = 0
    /\ detect_size(rom) = SizeCandidates[2]
    /\ probe_addresses(rom) = <<rom_base_address + 4 * MiB, rom_base_address + 8 * MiB>>
    /\ setAddrLog = <<rom_base_address>>
    /\ cart_size = 12

(***************************************************************************)
(* C12  get_cart_size_from_db                                              *)
(***************************************************************************)
\* C12: the lookup returns the size of the first well-formed record whose
\* checksum field equals the checksum exactly, and 0 when there is none or
\* the file is missing; a malformed record before it (too few fields, a
\* non-integer size, a missing blank separator line) does not hide it.
C12_LookupFindsFirstWellFormed ==
    pc = "m_size" => db_size = first_record_size(n64_txt, checksum)

\* what the lookup does give for the file without a separator: not found
C12_Divergence ==
    /\ pc = "m_size"
    /\ n64_txt = File(DbNoSeparator)
    /\ checksum = <<"A", "B", "C", "D", "E", "F", "0", "1">>
    /\ first_record_size(n64_txt, checksum) = 32
    /\ db_size = 0

\* C12, the part that holds: with every record on its three lines
\* (whatever its fields), the lookup returns the first well-formed record
\* for the checksum, and 0 when there is none or no file
C12_AlignedRecordsFound ==
    (pc = "m_size" /\ n64_txt # File(DbNoSeparator)) =>
        db_size = first_record_size(n64_txt, checksum)

(***************************************************************************)
(* C13  the sweep of read_cart                                             *)
(***************************************************************************)
\* the number of chunks whose set_address has been called
ChunksStarted == IF Len(setAddrLog) = 0 THEN 0 ELSE Len(setAddrLog) - 1

\* C13: the k-th set_address of the sweep has the address base + 512*(k-1),
\* so the addresses ascend and none is set twice; 256 words are read after
\* each; every write to the transport is a buffer of exactly 512 bytes
\* holding the words read since that chunk's set_address, and the chunks
\* reach the transport one per address, in address order.  (Followed for
\* the first MaxChunks chunks of the sweep.)
C13_SweepAddressesAndWrites ==
    /\ \A k \in 2 .. Len(setAddrLog) :
           setAddrLog[k] = rom_base_address + ChunkBytes * (k - 2)
    /\ \A k \in 1 .. Len(transport) : Len(transport[k]) = ChunkBytes
    /\ \A k \in 1 .. Len(pendingWrite) : Len(pendingWrite[k]) = ChunkBytes
    /\ Len(transport) + Len(pendingWrite) <= ChunksStarted
    /\ pc = "rc_loop" =>
           /\ rom_address = rom_base_address + ChunkBytes * Len(transport)
           /\ ChunksStarted = Len(transport)
           /\ rom_address <= end_address
    /\ pc \in {"rc_buf", "rc_word", "rc_store", "rc_write", "rc_drain", "rc_led"} =>
           /\ setAddrLog[Len(setAddrLog)] = rom_address
           /\ address = rom_address
           /\ rom_address < end_address
    /\ pc \in {"rc_buf", "rc_word", "rc_store", "rc_write"} =>
           ChunksStarted = Len(transport) + 1
    /\ pc = "rc_write" =>
           /\ Len(wordsRead) = 256
           /\ Serialized(chunk_buffer, wordsRead)
    /\ pc = "rc_drain" =>
           /\ pendingWrite = <<chunk_buffer>>
           /\ Len(wordsRead) = 256
           /\ Serialized(chunk_buffer, wordsRead)
    /\ pc = "rc_led" =>
           /\ ChunksStarted = Len(transport)
           /\ transport[Len(transport)] = chunk_buffer
           /\ Len(wordsRead) = 256
           /\ Serialized(chunk_buffer, wordsRead)

\* two chunks have been written, for base and base + 512
C13_Witness ==
    /\ pc = "rc_loop"
    /\ setAddrLog = <<rom_base_address, rom_base_address, rom_base_address + 512>>
    /\ Len(transport) = 2
    /\ transport[1] # transport[2]
    /\ rom_address = rom_base_address + 1024

(***************************************************************************)
(* C14  the start of the dump                                              *)
(***************************************************************************)
\* lines 282-308 and 246-280: main and read_cart call no input function (no
\* stdin read, no stream reader), so the lines the device has read from the
\* host are none, in every state
host_lines_read == <<>>

START_DUMP == <<"S", "T", "A", "R", "T", "_", "D", "U", "M", "P">>

\* the sweep has begun: its first set_address has been called
SweepBegun == Len(setAddrLog) >= 2

\* C14 as claimed: the first set_address of the sweep and the first chunk
\* write happen only after the line START_DUMP has been received
C14_NoDataBeforeStartDump ==
    (SweepBegun \/ pendingWrite # <<>> \/ transport # <<>>) =>
        \E k \in 1 .. Len(host_lines_read) : host_lines_read[k] = START_DUMP

\* C14 (amended): the device reads no line from the host and does not wait
\* for START_DUMP.  The sweep begins as soon as main has initialized and
\* activated the state machine, run setup_cart (reset released), read the
\* 32 header words, formed the checksum and resolved the size; no byte of
\* ROM data is written to the transport before that.  (The checksum and the
\* lookup are compared where set_address is called and where the chunk is
\* written and drained.)
C14_DataOnlyAfterIdentification ==
    (SweepBegun \/ pendingWrite # <<>> \/ transport # <<>>) =>
        /\ host_lines_read = <<>>
        /\ sm_read # "None" /\ smActive
        /\ reset_pin = 1 /\ write_pin = 1
        /\ Len(buffer) = HeaderBytes
        /\ pc \in {"sa_out", "rc_write", "rc_drain"} =>
               /\ checksum = checksum_str(buffer)
               /\ db_size = get_cart_size_from_db(n64_txt, checksum)
        /\ cart_size = resolve_size(db_size, default_cart_size)
        /\ total_bytes = cart_size * MiB
        /\ setAddrLog[1] = rom_base_address /\ setAddrLog[2] = rom_base_address

\* the first chunk is on the transport and nothing was read from the host
C14_Witness ==
    /\ Len(transport) = 1
    /\ Len(transport[1]) = ChunkBytes
    /\ host_lines_read = <<>>
    /\ pc = "rc_led"

(***************************************************************************)
(* C15  the end of the dump                                                *)
(***************************************************************************)
DUMP_COMPLETE ==
    <<"D", "U", "M", "P", "_", "C", "O", "M", "P", "L", "E", "T", "E", "\n">>

\* C15 as claimed: once the sweep is over, exactly one write to the
\* transport is the completion marker, and it comes after the last chunk
C15_OneMarkerAfterLastChunk ==
    pc = "done" =>
        /\ transport # <<>>
        /\ transport[Len(transport)] = DUMP_COMPLETE
        /\ \A k \in 1 .. Len(transport) - 1 : transport[k] # DUMP_COMPLETE

\* C15 (amended): read_cart emits no completion marker.  The loop ends when
\* rom_address reaches end_address, after the chunk at end_address - 512 has
\* been written and drained; read_cart then only turns the LED off and
\* returns.  The transport receives that chunk, 512 bytes holding its 256
\* words, and nothing else; no address at or past end_address is set, and
\* when the sweep is over no read is in progress or pending.
C15_SweepEndsWithoutMarker ==
    /\ \A k \in 1 .. Len(transport) :
           Len(transport[k]) = ChunkBytes /\ transport[k] # DUMP_COMPLETE
    /\ setAddrLog = <<end_address - ChunkBytes>>
    /\ Len(transport) <= 1
    /\ pc \in {"rc_end", "done"} =>
           /\ rom_address = end_address
           /\ Len(transport) = 1
           /\ pendingWrite = <<>>
           /\ Len(wordsRead) = 256
           /\ Serialized(chunk_buffer, wordsRead)
           /\ transport[1] = chunk_buffer
           /\ txFifo = <<>> /\ rxFifo = <<>>
           /\ pioPc \in {1, Len(read_word_pio)}
           /\ AllIn(pinMode)
    /\ pc = "done" => led_pin = 0

\* the sweep is over: the last chunk, at end_address - 512, is the only
\* thing the transport received after the chunks before it
C15_Witness ==
    /\ pc = "done"
    /\ Len(transport) = 1
    /\ setAddrLog[Len(setAddrLog)] = end_address - 512
    /\ transport[Len(transport)] # DUMP_COMPLETE
    /\ Len(wordsRead) = 256
    /\ pioPc = 1 /\ rd = 1

(***************************************************************************)
(* C16  backpressure                                                       *)
(***************************************************************************)
\* C16: at most one chunk is un-drained at any time, and only between
\* writer.write and the end of writer.drain; the chunk before has reached
\* the transport whenever read_cart calls set_address, reads a word or
\* fills a buffer, and the buffer handed to the writer is unchanged while
\* it is un-drained.
C16_DrainedBeforeNextChunk ==
    /\ Len(pendingWrite) <= 1
    /\ pendingWrite # <<>> => (pc = "rc_drain" /\ pendingWrite[1] = chunk_buffer)
    /\ Len(setAddrLog) >= 2 =>
           Len(transport) + Len(pendingWrite)
               = (IF pc \in {"rc_drain", "rc_led", "rc_loop"}
                  THEN ChunksStarted ELSE ChunksStarted - 1)
    /\ (pc # "rc_drain" /\ Len(setAddrLog) >= 2) =>
           Len(transport) >= ChunksStarted - 1

\* set_address is called for the 2nd chunk: the 1st has been written and
\* drained
C16_Witness ==
    /\ pc = "sa_out" /\ saRet = "rc_buf"
    /\ ChunksStarted = 2
    /\ address = rom_base_address + ChunkBytes
    /\ pendingWrite = <<>>
    /\ Len(transport) = 1
    /\ transport[1] = chunk_buffer

(***************************************************************************)
(* C17  read_word without the state machine                                *)
(***************************************************************************)
\* C17: while sm_read is None, read_word raises at once: it puts no trigger
\* in the TX FIFO, takes and returns no word, the state machine does not
\* move, and the caller goes no further (nothing is enabled once the error
\* is raised), so no byte of the chunk in progress or of a later chunk is
\* written to the transport.
C17_UninitializedReadRaises ==
    sm_read = "None" =>
        /\ pc \notin {"rw_put", "rw_get", "gci_store", "rc_store", "rc_write",
                      "rc_drain", "rc_led"}
        /\ txFifo = <<>> /\ rxFifo = <<>>
        /\ pioPc = 1 /\ osr = 0 /\ isr = 0
        /\ wordsRead = <<>> /\ sampleLog = <<>>
        /\ pendingWrite = <<>> /\ transport = <<>>
        /\ pc = "raised" =>
               /\ ~ENABLED NextNoEngine
               /\ word = 0
               /\ Len(setAddrLog) = 1
               /\ (rwRet = "rc_store" => chunk_buffer = Zeros(ChunkBytes))

\* read_cart's first read_word has raised: a buffer was allocated, nothing
\* was read and nothing was written
C17_Witness ==
    /\ pc = "raised"
    /\ rwRet = "rc_store"
    /\ sm_read = "None"
    /\ setAddrLog = <<rom_base_address>>
    /\ bufferIndex = 0
    /\ transport = <<>>

(***************************************************************************)
(* C18  the call order of main                                             *)
(***************************************************************************)
\* inside read_word, lines 157-169
ReadWordPcs == {"rw_check", "rw_put", "rw_get"}

\* C18: whenever main is inside read_word, the state machine has been
\* constructed and activated, a set_address has completed (the latches
\* hold the address it was given, both latch lines are low) and the bus
\* lines have been inputs ever since: no read happens while the lines are
\* outputs, as setup_cart leaves them, or before an address is latched.
C18_ReadOnlyAfterSetAddress ==
    /\ pc \in ReadWordPcs =>
           /\ sm_read # "None" /\ smActive
           /\ setAddrLog # <<>>
           /\ address = setAddrLog[Len(setAddrLog)]
           /\ latchHigh = address_high(address)
           /\ latchLow = address_low(address)
           /\ ale_low_pin = 0 /\ ale_high_pin = 0
           /\ AllIn(pinMode)
           /\ reset_pin = 1
    /\ (txFifo # <<>> \/ pioPc # 1 \/ rxFifo # <<>>) => setAddrLog # <<>>
    /\ pc \in {"gci_buf", "gci_loop", "gci_store", "rc_buf", "rc_word", "rc_store"} =>
           AllIn(pinMode)
    /\ pioPc \in 2 .. 10 => (pc = "rw_get" /\ AllIn(pinMode))

\* the first read_word of get_cart_id: setup_cart left the lines as outputs
\* and set_address(rom_base_address) has since made them inputs
C18_Witness ==
    /\ pc = "rw_check"
    /\ rwRet = "gci_store"
    /\ wordsRead = <<>>
    /\ setAddrLog = <<rom_base_address>>
    /\ latchHigh = 4096 /\ latchLow = 0
    /\ AllIn(pinMode)

(***************************************************************************)
(* C19  read-enable against the direction of the bus lines                 *)
(***************************************************************************)
\* C19: once the state machine owns read-enable, there is no state in which
\* read-enable is low (the cartridge drives the bus) while a bus line is an
\* output of the microcontroller
C19_NoDriveWhileReadEnabled ==
    sm_read # "None" => ~(rd = 0 /\ ~AllIn(pinMode))

\* the state the claim excludes: the state machine has pushed the last
\* header word and not yet run nop().side(1), and the set_address of the
\* first chunk has already made the bus lines outputs
C19_Contention ==
    /\ pc = "sa_wr" /\ saRet = "rc_buf"
    /\ Len(wordsRead) = 0 /\ Len(sampleLog) = 0
    /\ pioPc = Len(read_word_pio)
    /\ rd = 0
    /\ \A k \in 0 .. 15 : pinMode[address_pins(k)] = "OUT"

(***************************************************************************)
(* C20  trigger and result pairing                                         *)
(***************************************************************************)
\* triggers put and not yet answered by a word taken: in the TX FIFO, in
\* the state machine between pull and push, or as a word in the RX FIFO
Pending ==
    Len(txFifo) + (IF pioPc \in 2 .. 10 THEN 1 ELSE 0) + Len(rxFifo)

\* C20: exactly one trigger is outstanding while read_word waits in get()
\* and none at any other time, so neither FIFO ever holds more than one
\* entry and both are empty between read_word calls; the words read_word
\* has returned since the last set_address are, in order, the samples in_()
\* has taken since then: the k-th word returned is the k-th sample.
C20_OneTriggerOneWord ==
    /\ Len(txFifo) <= 1 /\ Len(rxFifo) <= 1
    /\ Pending = (IF pc = "rw_get" THEN 1 ELSE 0)
    /\ pc # "rw_get" => wordsRead = sampleLog
    /\ pc = "rw_get" =>
           \/ wordsRead = sampleLog /\ rxFifo = <<>> /\ pioPc # 10
           \/ /\ Len(sampleLog) = Len(wordsRead) + 1
              /\ SubSeq(sampleLog, 1, Len(wordsRead)) = wordsRead
              /\ IF rxFifo # <<>>
                 THEN rxFifo = <<sampleLog[Len(sampleLog)]>> /\ pioPc \in {1, 11}
                 ELSE isr = sampleLog[Len(sampleLog)] /\ pioPc = 10
    /\ (pc \in {"gci_store", "rc_store"}) =>
           (wordsRead # <<>> /\ word = sampleLog[Len(sampleLog)])

\* the 2nd word of a read is in the RX FIFO: it is the 2nd sample, and it
\* differs from the 1st
C20_Witness ==
    /\ pc = "rw_get"
    /\ Len(wordsRead) = 1
    /\ Len(sampleLog) = 2
    /\ rxFifo = <<sampleLog[2]>>
    /\ sampleLog[2] # sampleLog[1]
    /\ txFifo = <<>>

====
